---------------------------- MODULE Spec2Model ----------------------------
(***************************************************************************)
(* A model of the fast_pool connection pool (src/src/pool.rs and           *)
(* src/src/guard.rs).                                                      *)
(*                                                                         *)
(* The pool's shared state is seven AtomicU64 counters and one unbounded   *)
(* flume channel (the idle queue).  Client threads call get_timeout, drop  *)
(* guards, and call set_max_open / set_max_idle_conns.  Every action below *)
(* performs exactly one access to the shared state (one atomic load,       *)
(* store, fetch_add, fetch_sub, or one channel operation) together with    *)
(* the thread-local computation around it, so that every interleaving of   *)
(* the atomic operations of concurrent threads is a behaviour of Spec.     *)
(***************************************************************************)
EXTENDS Integers, Sequences, FiniteSets

(***************************************************************************)
(* Bounds of the model.                                                    *)
(***************************************************************************)
\* manager.connect() is invoked at most MaxConnects times in a behaviour
MaxConnects == 2
\* set_max_open is called with n in 0..MaxOpenArg
MaxOpenArg == 1
\* set_max_idle_conns is called with n in 0..MaxIdleArg
MaxIdleArg == 0
\* once connections has wrapped below zero, it is decremented at most
\* MaxUnderflow times more
MaxUnderflow == 0
\* the same three bounds for the single client of SeqSpec
SeqMaxConnects == 3
SeqMaxOpenArg == 2
SeqMaxIdleArg == 2
\* the same three bounds for the single client of LogSpec
LogMaxConnects == 2
LogMaxOpenArg == 2
LogMaxIdleArg == 0
\* the get() calls begun in the run whose connect calls are counted
MaxCalls == 3
\* the d of SkipInterval(d), MaxLifetime(d) and set_conn_max_lifetime(Some(d)),
\* and of CheckDurationConnectionManager::new(manager, d), in milliseconds
LifeMillis == 1
\* the clock ticks TicksPerMilli times in a millisecond
TicksPerMilli == 4
\* in ApiSpec manager.connect() is invoked at most ApiMaxConnects times, by
\* the pool or by the caller
ApiMaxConnects == 3
\* in ApiSpec set_checked(true) is called while in_use is below ApiMaxInUse
ApiMaxInUse == 3

\* the client threads
Procs == {1, 2}
\* the single client thread of SeqSpec
SeqProcs == {1}

(***************************************************************************)
(* Program constants.                                                      *)
(***************************************************************************)
\* Pool::new: let max_open = 32
DefaultMaxOpen == 32
\* The largest value of an AtomicU64.  TLC's integers are 32 bits wide, so
\* the largest TLC integer stands for 2^64 - 1: it is what a fetch_sub on 0
\* leaves, it is greater than every other value of the model, and a
\* fetch_add on it leaves 0.
U64Max == 2147483647
\* duration.rs lines 55-56: const MS_PER_SEC, const NANOS_PER_MILLI
MsPerSec == 1000
NanosPerMilli == 1000000
\* plugin/connection_lifecycle_manager.rs line 33: std::cmp::min(current_idle, 20)
CleanupBatch == 20
\* plugin/duration_manager.rs lines 42-43: the nanoseconds of a second
NanosPerSec == 1000000000
\* the d of the lifetime settings, in nanoseconds
LifeD == LifeMillis * NanosPerMilli

\* The Option<Duration> argument of get_timeout: None, Some(Duration::ZERO)
\* or Some(d) with d > 0.  tokio's Timeout polls the wrapped future before it
\* looks at the timer, so with any d the deadline fires only when the future
\* is pending at one of its awaits.  With Duration::ZERO the deadline has
\* passed when the timer is first looked at, or (the timer counting in whole
\* milliseconds) when it is looked at next: the first poll may return
\* Pending, and the caller then holds a pending future that it can drop.
Durations == {"None", "Zero", "Some"}

VARIABLES
    max_open,       \* Pool.max_open
    max_idle,       \* Pool.max_idle
    in_use,         \* Pool.in_use
    waits,          \* Pool.waits
    connecting,     \* Pool.connecting
    checking,       \* Pool.checking
    connections,    \* Pool.connections
    idle,           \* the channel idle_send/idle_recv: a FIFO of connections
    connects,       \* number of manager.connect() calls made so far
    held,           \* held[c]: number of checked guards owned by callers that hold connection c
    pc,             \* pc[p]: where thread p is in the operation it executes
    dur,            \* dur[p]: the argument d of p's get_timeout call
    acc,            \* acc[p]: the value p loaded and has still to compare; after a try_recv, the number of connections it received
    conn,           \* conn[p]: the connection p's code owns (0: none)
    checked,        \* checked[p]: ConnectionGuard.checked of the guard p's code owns
    verdict,        \* verdict[p]: what manager.check returned for the guard p's code owns
    result,         \* result[p]: what p's get_timeout is about to return
    arg,            \* arg[p]: the argument n of p's set_max_open / set_max_idle_conns
    max_lifetime,   \* Pool.max_lifetime: "None" or "Some" (the duration d)
    mode,           \* DurationManager.mode.mode: the AtomicI8 of CheckModeAtomic
    instant,        \* the connections c whose DurationConnection.instant is Some(creation instant)
    age,            \* age[c]: the time since connection c was created, in units of LifeD
    duration,       \* DurationManager.mode.duration: the Atomic<u128> of CheckModeAtomic, nanoseconds
    cell,           \* AtomicDuration.0: the AtomicUsize of an AtomicDuration, milliseconds
    now,            \* SystemTime::now() since UNIX_EPOCH, in clock ticks (TicksPerMilli to the millisecond)
    obs             \* observer of a sequential client: state() before the call, and the call's outcome

vars == <<max_open, max_idle, in_use, waits, connecting, checking, connections,
          idle, connects, held, pc, dur, acc, conn, checked, verdict, result, arg,
          max_lifetime, mode, instant, age, duration, cell, now, obs>>

\* the lifetime settings and the clock
lifeVars == <<max_lifetime, mode, instant, age, duration, cell, now>>

poolVars == <<max_open, max_idle, in_use, waits, connecting, checking, connections, idle>>

\* the connections: connection c is the one the c-th connect() call returns
Conns == 1..(CHOOSE m \in {MaxConnects, SeqMaxConnects, LogMaxConnects, ApiMaxConnects} :
                \A k \in {MaxConnects, SeqMaxConnects, LogMaxConnects, ApiMaxConnects} : k <= m)

(***************************************************************************)
(* AtomicU64 arithmetic.                                                   *)
(***************************************************************************)
\* the value left by fetch_add(1)
FetchAdd(x) == IF x = U64Max THEN 0 ELSE x + 1
\* a changed fetch_sub(1) that leaves the value as it is
FetchSubSkipped(x) == x

\* the value left by fetch_sub(1)
FetchSub(x) == IF x = 0 THEN U64Max ELSE x - 1

(***************************************************************************)
(* Pool::state                                                             *)
(***************************************************************************)
State == [max_open    |-> max_open,
          connections |-> connections,
          in_use      |-> in_use,
          idle        |-> Len(idle),
          waits       |-> waits,
          connecting  |-> connecting,
          checking    |-> checking]

(***************************************************************************)
(* The observer.  A sequential test reads state() before an operation and  *)
(* again after it.  While obs.on, starting an operation records the state  *)
(* before it, and finishing one records its outcome; the state after it is *)
(* the current state as long as the client is idle.  With obs.on = FALSE   *)
(* (concurrent clients) the observer records nothing.                      *)
(***************************************************************************)
\* what the observer keeps of a finished operation: the operation, its
\* argument, its outcome, and max_open, in_use and idle of the state()
\* before it
NoCall == [op |-> "none", n |-> 0, d |-> "None", result |-> "none",
           max_open |-> 0, in_use |-> 0, idle |-> 0]

NoObs == [on |-> FALSE, op |-> "none", n |-> 0, c |-> 0, d |-> "None",
          pre |-> [max_open |-> 0, connections |-> 0, in_use |-> 0, idle |-> 0,
                   waits |-> 0, connecting |-> 0, checking |-> 0],
          queue |-> <<>>, max_idle |-> 0, connects |-> 0, result |-> "none",
          ev |-> {}, log |-> FALSE, last |-> NoCall, before |-> NoCall]

\* the observer of concurrent clients records nothing
ObsOff == [on |-> FALSE, count |-> FALSE]

\* the observer of a test that spawns its get() calls as tasks: the calls
\* begun, and the connections discarded because manager.check returned an
\* error
ObsCount == [on |-> FALSE, count |-> TRUE, calls |-> 0, discards |-> 0]

\* A new operation starts.  With obs.log the operation watched until now
\* becomes the last operation before this one, and the last one the one
\* before it.  With obs.count (a test that spawns its get() calls as tasks)
\* the observer only counts the get() calls begun and the connections
\* discarded because manager.check returned an error.
ObsStart(op, n, c, d) ==
    IF obs.on
    THEN [on |-> TRUE, op |-> op, n |-> n, c |-> c, d |-> d,
          pre |-> State, queue |-> idle, max_idle |-> max_idle,
          connects |-> connects, result |-> "running",
          ev |-> {}, log |-> obs.log,
          last |-> IF obs.log
                   THEN [op |-> obs.op, n |-> obs.n, d |-> obs.d, result |-> obs.result,
                         max_open |-> obs.pre.max_open, in_use |-> obs.pre.in_use,
                         idle |-> obs.pre.idle]
                   ELSE obs.last,
          before |-> IF obs.log THEN obs.last ELSE obs.before]
    ELSE IF obs.count /\ op = "get_timeout"
    THEN [obs EXCEPT !.calls = @ + 1]
    ELSE obs

\* the operation o watches has finished with outcome r
ObsFinish(o, r) == IF o.on THEN [o EXCEPT !.result = r] ELSE o

ObsEnd(r) == ObsFinish(obs, r)

\* what the manager did, or where the future was dropped, during the
\* operation the observer watches
ObsEv(e) ==
    IF obs.on THEN [obs EXCEPT !.ev = @ \cup {e}]
    ELSE IF obs.count /\ e = <<"err", "check">> THEN [obs EXCEPT !.discards = @ + 1]
    ELSE obs

\* the observer of a test whose inner manager counts its check calls: the
\* get() calls begun and the inner check calls made
ObsChecks == [on |-> FALSE, count |-> TRUE, calls |-> 0, discards |-> 0, checks |-> 0]

\* the inner manager's check was called (consulted) or not
ObsInner(o, consulted) ==
    IF ~o.on /\ o.count /\ consulted /\ "checks" \in DOMAIN o
    THEN [o EXCEPT !.checks = @ + 1]
    ELSE o

Goto(p, l) == pc' = [pc EXCEPT ![p] = l]

(***************************************************************************)
(* Pool::new                                                               *)
(***************************************************************************)
PoolNew ==
    /\ max_open = DefaultMaxOpen
    /\ max_idle = DefaultMaxOpen
    /\ in_use = 0
    /\ waits = 0
    /\ connecting = 0
    /\ checking = 0
    /\ connections = 0
    /\ idle = <<>>

\* Pool::new (line 76): max_lifetime is None; the manager is not wrapped in
\* a DurationManager; no connection exists
NoLifetime ==
    /\ max_lifetime = "None"
    /\ mode = 0
    /\ duration = 0
    /\ instant = {}
    /\ age = [c \in Conns |-> 0]
    /\ cell = 0
    /\ now = 0

ClientsInit ==
    /\ connects = 0
    /\ held = [c \in Conns |-> 0]
    /\ pc = [p \in Procs |-> "idle"]
    /\ dur = [p \in Procs |-> "None"]
    /\ acc = [p \in Procs |-> 0]
    /\ conn = [p \in Procs |-> 0]
    /\ checked = [p \in Procs |-> FALSE]
    /\ verdict = [p \in Procs |-> "none"]
    /\ result = [p \in Procs |-> "none"]
    /\ arg = [p \in Procs |-> 0]

Init ==
    /\ PoolNew
    /\ ClientsInit
    /\ NoLifetime
    /\ obs = ObsOff

(***************************************************************************)
(* Pool::get_timeout (Pool::get is get_timeout(None)).                     *)
(***************************************************************************)
\* line 85: self.waits.fetch_add(1)
GetTimeout(p, d) ==
    /\ pc[p] = "idle"
    /\ waits' = FetchAdd(waits)
    /\ dur' = [dur EXCEPT ![p] = d]
    /\ Goto(p, "ld_connections")
    /\ obs' = ObsStart("get_timeout", 0, 0, d)
    /\ UNCHANGED <<lifeVars, max_open, max_idle, in_use, connecting, checking, connections,
                   idle, connects, held, acc, conn, checked, verdict, result, arg>>

\* line 92: self.connections.load()
LoadConnections(p) ==
    /\ pc[p] = "ld_connections"
    /\ acc' = [acc EXCEPT ![p] = connections]
    /\ Goto(p, "ld_connecting")
    /\ UNCHANGED <<lifeVars, poolVars, connects, held, dur, conn, checked, verdict, result, arg, obs>>

\* lines 92-93: the + of two u64 overflows
Overflows(x, y) == x > U64Max - y

\* lines 92-93: the sum of two u64 in a build without overflow checks: it
\* wraps around
AddU64(x, y) == IF Overflows(x, y) THEN x - (U64Max - y) - 1 ELSE x + y

\* line 93: + self.connecting.load().  When the addition overflows, a build
\* without overflow checks (cargo's release profile) goes on with the
\* wrapped sum, and a build with them (the dev and test profiles) panics
\* with "attempt to add with overflow": get_timeout unwinds, and of its
\* deferred closures only the waits.fetch_sub of lines 86-88 is in scope.
LoadConnecting(p) ==
    /\ pc[p] = "ld_connecting"
    /\ \/ /\ acc' = [acc EXCEPT ![p] = AddU64(acc[p], connecting)]
          /\ Goto(p, "ld_max_open")
          /\ UNCHANGED result
       \/ /\ Overflows(acc[p], connecting)
          /\ acc' = [acc EXCEPT ![p] = 0]
          /\ result' = [result EXCEPT ![p] = "panic"]
          /\ Goto(p, "dec_waits")
    /\ UNCHANGED <<lifeVars, poolVars, connects, held, dur, conn, checked, verdict, arg, obs>>

\* a changed admission test: <= for <
AdmitsAtLimit(sum, limit) == sum <= limit

\* line 94: if connections < self.max_open.load()
Admits(sum, limit) == sum < limit

LoadMaxOpen(p) ==
    /\ pc[p] = "ld_max_open"
    /\ Goto(p, IF Admits(acc[p], max_open) THEN "inc_connecting" ELSE "recv")
    /\ acc' = [acc EXCEPT ![p] = 0]
    /\ UNCHANGED <<lifeVars, poolVars, connects, held, dur, conn, checked, verdict, result, arg, obs>>

\* lines 96-101: self.connecting.fetch_add(1), then manager.connect() is called
IncConnecting(p) ==
    /\ pc[p] = "inc_connecting"
    /\ connects < (IF ~obs.on THEN MaxConnects
                   ELSE IF obs.log THEN LogMaxConnects ELSE SeqMaxConnects)
    /\ connecting' = FetchAdd(connecting)
    /\ connects' = connects + 1
    /\ conn' = [conn EXCEPT ![p] = connects + 1]
    /\ Goto(p, "connect")
    /\ UNCHANGED <<lifeVars, max_open, max_idle, in_use, waits, checking, connections, idle,
                   held, dur, acc, checked, verdict, result, arg, obs>>

\* plugin/duration_manager.rs lines 12-19: enum CheckMode.  A value is its
\* variant and the nanoseconds of its Duration (NoLimit carries none: 0).
NoLimit == [kind |-> "NoLimit", d |-> 0]
SkipInterval(d) == [kind |-> "SkipInterval", d |-> d]
MaxLifetime(d) == [kind |-> "MaxLifetime", d |-> d]

\* lines 23-29: CheckMode::as_i8
AsI8(m) ==
    CASE m.kind = "NoLimit" -> 0
      [] m.kind = "SkipInterval" -> 1
      [] m.kind = "MaxLifetime" -> 2

\* lines 32-38: CheckMode::as_duration, the nanoseconds stored
AsDuration(m) == IF m.kind = "NoLimit" THEN 0 ELSE m.d

\* lines 41-50: CheckMode::new(mode, duration): Duration::new(secs, nanos)
\* of the stored nanoseconds; any i8 other than 1 and 2 is NoLimit
CheckModeNew(i, n) ==
    LET secs == n \div NanosPerSec
        nanos == n % NanosPerSec
        d == secs * NanosPerSec + nanos
    IN  CASE i = 1 -> SkipInterval(d)
          [] i = 2 -> MaxLifetime(d)
          [] OTHER -> NoLimit

\* lines 80-84: CheckModeAtomic::get_mode, when no set_mode runs between
\* its two loads
GetMode == CheckModeNew(mode, duration)

\* plugin/duration_manager.rs lines 156-168 (DurationManager::connect): the
\* connections that carry a creation instant once c is connected in mode m.
\* A manager that is not wrapped is the wrapper in mode NoLimit.
Stamped(m, stamped, c) == IF m.kind = "NoLimit" THEN stamped ELSE stamped \cup {c}

\* line 101: manager.connect().await returns Ok(conn)
ConnectOk(p) ==
    /\ pc[p] = "connect"
    /\ instant' = Stamped(GetMode, instant, conn[p])
    /\ Goto(p, "send")
    /\ UNCHANGED <<max_lifetime, mode, duration, age, cell, now, poolVars, connects, held, dur, acc, conn, checked, verdict, result, arg, obs>>

\* line 101: manager.connect().await? returns Err(e): the async block ends
ConnectErr(p) ==
    /\ pc[p] = "connect"
    /\ conn' = [conn EXCEPT ![p] = 0]
    /\ result' = [result EXCEPT ![p] = "connect_error"]
    /\ Goto(p, "dec_connecting")
    /\ obs' = ObsEv(<<"err", "connect">>)
    /\ UNCHANGED <<lifeVars, poolVars, connects, held, dur, acc, checked, verdict, arg>>

\* lines 102-104: self.idle_send.send(conn)
Send(p) ==
    /\ pc[p] = "send"
    /\ idle' = Append(idle, conn[p])
    /\ conn' = [conn EXCEPT ![p] = 0]
    /\ Goto(p, "inc_connections")
    /\ UNCHANGED <<lifeVars, max_open, max_idle, in_use, waits, connecting, checking, connections,
                   connects, held, dur, acc, checked, verdict, result, arg, obs>>

\* line 105: self.connections.fetch_add(1)
IncConnections(p) ==
    /\ pc[p] = "inc_connections"
    /\ connections' = FetchAdd(connections)
    /\ Goto(p, "dec_connecting")
    /\ UNCHANGED <<lifeVars, max_open, max_idle, in_use, waits, connecting, checking, idle,
                   connects, held, dur, acc, conn, checked, verdict, result, arg, obs>>

\* a changed ?: the error of connect is swallowed and the call goes on
AfterConnectingGoesOn(r) == "recv"

\* where the if-block of lines 94-106 is left to, r being what the call is
\* about to return: to recv_async from its end (line 106), out of the async
\* block by the ? of line 101 or when the future is dropped
AfterConnecting(r) == IF r = "none" THEN "recv" ELSE "dec_waits"

\* lines 97-99: the deferred self.connecting.fetch_sub(1), run when the
\* if-block is left: at its end (line 106), by the ? of line 101, or when the
\* future is dropped at the connect await
DecConnecting(p) ==
    /\ pc[p] = "dec_connecting"
    /\ connecting' = FetchSub(connecting)
    /\ Goto(p, AfterConnecting(result[p]))
    /\ UNCHANGED <<lifeVars, max_open, max_idle, in_use, waits, checking, connections, idle,
                   connects, held, dur, acc, conn, checked, verdict, result, arg, obs>>

\* a changed receive: the connection is read and left in the queue
RecvQueueKeeps(q) == q

\* lines 107-114: idle_recv.recv_async().await returns a connection, which
\* is wrapped in a guard with checked = false; RecvQueue is the queue it leaves
RecvQueue(q) == Tail(q)

Recv(p) ==
    /\ pc[p] \in {"recv", "parked"}
    /\ idle # <<>>
    /\ conn' = [conn EXCEPT ![p] = Head(idle)]
    /\ idle' = RecvQueue(idle)
    /\ checked' = [checked EXCEPT ![p] = FALSE]
    /\ verdict' = [verdict EXCEPT ![p] = "none"]
    /\ Goto(p, "inc_checking")
    /\ UNCHANGED <<lifeVars, max_open, max_idle, in_use, waits, connecting, checking, connections,
                   connects, held, dur, acc, result, arg, obs>>

\* lines 107-111: idle_recv.recv_async() is polled while the queue is empty:
\* the poll returns Pending, and the call is parked as a receiver of the
\* channel until a connection is sent
Park(p) ==
    /\ pc[p] = "recv"
    /\ idle = <<>>
    /\ Goto(p, "parked")
    /\ UNCHANGED <<lifeVars, poolVars, connects, held, dur, acc, conn, checked, verdict,
                   result, arg, obs>>

\* line 116: self.checking.fetch_add(1), then manager.check(&mut guard) is called
IncChecking(p) ==
    /\ pc[p] = "inc_checking"
    /\ checking' = FetchAdd(checking)
    /\ Goto(p, "check")
    /\ UNCHANGED <<lifeVars, max_open, max_idle, in_use, waits, connecting, connections, idle,
                   connects, held, dur, acc, conn, checked, verdict, result, arg, obs>>

\* a changed set_checked: in_use is not counted
SetCheckedForgets(c, n) == n

\* guard.rs lines 24-29: ConnectionGuard::set_checked: the value of in_use it leaves
SetChecked(c, n) == IF c THEN FetchAdd(n) ELSE n

\* a changed match: the Err arm hands the guard out too
CheckPassedAlways(r) == TRUE

\* line 126: match check_result: the arm taken for what manager.check returned
CheckPassed(r) == r = "Ok"

\* plugin/duration_manager.rs lines 176-181: in mode m, check of a
\* connection whose instant was taken a nanoseconds ago (stamped: the
\* instant is Some) returns Ok(()) at once
Skips(m, stamped, a) == m.kind = "SkipInterval" /\ stamped /\ a < m.d

\* lines 183-189: it returns the error "connection exceeded max lifetime"
Expires(m, stamped, a) == m.kind = "MaxLifetime" /\ stamped /\ a > m.d

\* instant.elapsed() of connection c, in nanoseconds
Elapsed(c) == age[c] * LifeD

\* lines 126-134: manager.check(&mut guard) returned v within timeout_check.
\* Ok: guard.set_checked(true); break Ok(guard).  Err: drop(guard); continue.
\* (consulted: the inner manager's check is called in this step.)
Checked(p, v, consulted) ==
    /\ verdict' = [verdict EXCEPT ![p] = v]
    /\ IF CheckPassed(v)
       THEN /\ checked' = [checked EXCEPT ![p] = TRUE]
            /\ in_use' = SetChecked(TRUE, in_use)
            /\ result' = [result EXCEPT ![p] = "ok"]
            /\ Goto(p, "dec_checking")
       ELSE /\ Goto(p, "g_load")
            /\ UNCHANGED <<checked, in_use, result>>
    /\ obs' = ObsInner(IF CheckPassed(v) THEN obs ELSE ObsEv(<<"err", "check">>), consulted)
    /\ UNCHANGED <<max_lifetime, mode, duration, instant, age, max_open, max_idle, waits,
                   connecting, checking, connections, idle,
                   connects, held, dur, acc, conn, arg>>

\* line 122 with a manager that is not wrapped: manager.check(&mut guard)
\* returns r
CheckReturns(p, r) ==
    /\ pc[p] = "check"
    /\ Checked(p, r, TRUE)
    /\ UNCHANGED <<cell, now>>

\* plugin/duration_manager.rs lines 171-192 (DurationManager::check) up to
\* its await: the mode and instant.elapsed() are read when check is called.
\* In SkipInterval within the interval check returns Ok(()) at once, in
\* MaxLifetime beyond the lifetime it returns the error "connection
\* exceeded max lifetime" ("Expired") at once; otherwise the inner
\* manager's check is called, and check waits for it.  (The client that
\* calls check is the only thread there is, so the two loads of get_mode
\* are not separated.)
DurationManagerCheck(p) ==
    /\ pc[p] = "check"
    /\ IF Skips(GetMode, conn[p] \in instant, Elapsed(conn[p]))
       THEN Checked(p, "Ok", FALSE)
       ELSE IF Expires(GetMode, conn[p] \in instant, Elapsed(conn[p]))
       THEN Checked(p, "Expired", FALSE)
       ELSE /\ Goto(p, "inner")
            /\ obs' = ObsInner(obs, TRUE)
            /\ UNCHANGED <<max_lifetime, mode, duration, instant, age, poolVars,
                           connects, held, dur, acc, conn, checked, verdict, result, arg>>
    /\ UNCHANGED <<cell, now>>

\* line 192: self.manager.check(conn).await returns r, which is what
\* DurationManager::check returns; time may have passed since the mode and
\* the elapsed time were read
InnerCheckReturns(p, r) ==
    /\ pc[p] = "inner"
    /\ Checked(p, r, FALSE)
    /\ UNCHANGED <<cell, now>>

\* lines 120-125: the check did not finish within timeout_check: the ? ends
\* the async block with the error "check_timeout=..."
CheckTimeout(p) ==
    /\ pc[p] \in {"check", "inner"}
    /\ verdict' = [verdict EXCEPT ![p] = "Elapsed"]
    /\ result' = [result EXCEPT ![p] = "check_timeout"]
    /\ Goto(p, "dec_checking")
    /\ obs' = ObsEv(<<"elapsed", "check">>)
    /\ UNCHANGED <<lifeVars, poolVars, connects, held, dur, acc, conn, checked, arg>>

\* lines 117-119: the deferred self.checking.fetch_sub(1).  It runs after
\* the explicit drop(guard) of line 132 (then the loop continues), and
\* before the guard is dropped when the block is left by the ? of line 125
\* or the future is dropped at the check await (locals drop in reverse order
\* of declaration); on success the guard has been moved out.
DecChecking(p) ==
    /\ pc[p] = "dec_checking"
    /\ checking' = FetchSub(checking)
    /\ Goto(p, CASE result[p] = "ok"   -> "dec_waits"
                 [] result[p] = "none" -> "ld_connections"
                 [] OTHER              -> "g_load")
    /\ UNCHANGED <<lifeVars, max_open, max_idle, in_use, waits, connecting, connections, idle,
                   connects, held, dur, acc, conn, checked, verdict, result, arg, obs>>

\* lines 142-145: the deadline of tokio::time::timeout(duration, f) fires
\* while f is pending at one of its awaits: f is dropped and the call
\* returns the error "get_timeout".  At recv_async f is pending only if the
\* queue is empty when it is polled, and Timeout polls f before it looks at
\* the timer.
\* a changed drop of the future: the deferred decrements of lines 97-99 and
\* 117-119 do not run
AwaitExitSkips(p) == "dec_waits"

AwaitExit(p) ==
    CASE pc[p] = "connect" -> "dec_connecting"
      [] pc[p] \in {"recv", "parked"} -> "dec_waits"
      [] pc[p] \in {"check", "inner"} -> "dec_checking"

\* the await at which p's future is pending
Await(p) == IF pc[p] = "parked" THEN "recv" ELSE pc[p]

Timeout(p) ==
    /\ dur[p] # "None"
    /\ \/ pc[p] \in {"connect", "check", "inner"}
       \/ pc[p] \in {"recv", "parked"} /\ idle = <<>>
    /\ result' = [result EXCEPT ![p] = "get_timeout"]
    /\ conn' = [conn EXCEPT ![p] = IF pc[p] = "connect" THEN 0 ELSE conn[p]]
    /\ Goto(p, AwaitExit(p))
    /\ obs' = ObsEv(<<"deadline", Await(p)>>)
    /\ UNCHANGED <<lifeVars, poolVars, connects, held, dur, acc, checked, verdict, arg>>

\* the caller drops the future returned by get_timeout (task abort, select!)
\* while it is pending at one of its awaits, whatever the duration of its
\* deadline.  A future is dropped only after a poll of it returned Pending:
\* at recv_async, once the call is parked.  A connection sent to the queue
\* since then stays in the queue when the parked call is dropped.
Cancel(p) ==
    /\ pc[p] \in {"connect", "check", "inner", "parked"}
    /\ result' = [result EXCEPT ![p] = "cancelled"]
    /\ conn' = [conn EXCEPT ![p] = IF pc[p] = "connect" THEN 0 ELSE conn[p]]
    /\ Goto(p, AwaitExit(p))
    /\ obs' = ObsEv(<<"dropped", Await(p)>>)
    /\ UNCHANGED <<lifeVars, poolVars, connects, held, dur, acc, checked, verdict, arg>>

(***************************************************************************)
(* Drop for ConnectionGuard, checked == false (guard.rs lines 56-61).      *)
(***************************************************************************)
\* a changed match: after the drop of line 132 the call returns
AfterGuardDropReturns(p) == "dec_waits"

AfterGuardDrop(p) == IF result[p] = "none" THEN "dec_checking" ELSE "dec_waits"

\* the guard of an unchecked drop decrements when it loaded connections > 0
DropDecrements(n) == n > 0

\* guard.rs line 59: if self.pool.connections.load() > 0
GuardDropLoad(p) ==
    /\ pc[p] = "g_load"
    /\ checked[p] = FALSE
    /\ Goto(p, IF DropDecrements(connections) THEN "g_sub" ELSE AfterGuardDrop(p))
    /\ conn' = [conn EXCEPT ![p] = IF DropDecrements(connections) THEN conn[p] ELSE 0]
    /\ verdict' = [verdict EXCEPT ![p] = IF DropDecrements(connections) THEN verdict[p] ELSE "none"]
    /\ UNCHANGED <<lifeVars, poolVars, connects, held, dur, acc, checked, result, arg, obs>>

\* guard.rs line 60: self.pool.connections.fetch_sub(1); the connection is dropped
GuardDropSub(p) ==
    /\ pc[p] = "g_sub"
    /\ connections # U64Max - MaxUnderflow
    /\ connections' = FetchSub(connections)
    /\ conn' = [conn EXCEPT ![p] = 0]
    /\ verdict' = [verdict EXCEPT ![p] = "none"]
    /\ Goto(p, AfterGuardDrop(p))
    /\ UNCHANGED <<lifeVars, max_open, max_idle, in_use, waits, connecting, checking, idle,
                   connects, held, dur, acc, checked, result, arg, obs>>

\* lines 86-88: the deferred self.waits.fetch_sub(1); get_timeout returns.
\* On Ok(guard) the guard now belongs to the caller.
DecWaits(p) ==
    /\ pc[p] = "dec_waits"
    /\ waits' = FetchSub(waits)
    /\ held' = IF result[p] = "ok" THEN [held EXCEPT ![conn[p]] = @ + 1] ELSE held
    /\ conn' = [conn EXCEPT ![p] = 0]
    /\ checked' = [checked EXCEPT ![p] = FALSE]
    /\ verdict' = [verdict EXCEPT ![p] = "none"]
    /\ dur' = [dur EXCEPT ![p] = "None"]
    /\ result' = [result EXCEPT ![p] = "none"]
    /\ obs' = ObsEnd(result[p])
    /\ Goto(p, "idle")
    /\ UNCHANGED <<lifeVars, max_open, max_idle, in_use, connecting, checking, connections, idle,
                   connects, acc, arg>>

(***************************************************************************)
(* Drop for ConnectionGuard, checked == true (guard.rs lines 62-67), and   *)
(* Pool::recycle (pool.rs lines 208-217).                                  *)
(***************************************************************************)
ObsDone(o) == ObsFinish(o, "done")

\* guard.rs lines 64-65 and pool.rs line 209: a caller drops a checked
\* guard: recycle(v) starts with self.in_use.fetch_sub(1)
DropGuard(p, c) ==
    /\ pc[p] = "idle"
    /\ held[c] > 0
    /\ held' = [held EXCEPT ![c] = @ - 1]
    /\ conn' = [conn EXCEPT ![p] = c]
    /\ in_use' = FetchSub(in_use)
    /\ Goto(p, "rc_len")
    /\ obs' = ObsStart("drop", 0, c, "None")
    /\ UNCHANGED <<lifeVars, max_open, max_idle, waits, connecting, checking, connections, idle,
                   connects, dur, acc, checked, verdict, result, arg>>

\* a changed unwinding: it stops after the first guard
AfterRecycleStops(p) == "idle"

\* where p goes on when recycle returns: a task that is being torn down
\* drops its next guard
AfterRecycle(p) == IF result[p] = "aborted" THEN "abort" ELSE "idle"

\* the observer when recycle returns
ObsRecycled(p) == IF AfterRecycle(p) = "idle" THEN ObsDone(obs) ELSE obs

\* line 210: self.idle_send.len()
RecycleLen(p) ==
    /\ pc[p] = "rc_len"
    /\ acc' = [acc EXCEPT ![p] = Len(idle)]
    /\ Goto(p, "rc_max_idle")
    /\ UNCHANGED <<lifeVars, poolVars, connects, held, dur, conn, checked, verdict, result, arg, obs>>

\* a changed recycle test: <= for <
RequeuesAtLimit(len, limit) == len <= limit

\* line 210: if len < self.max_idle.load()
Requeues(len, limit) == len < limit

RecycleLoadMaxIdle(p) ==
    /\ pc[p] = "rc_max_idle"
    /\ Goto(p, IF Requeues(acc[p], max_idle) THEN "rc_send" ELSE "rc_load")
    /\ acc' = [acc EXCEPT ![p] = 0]
    /\ UNCHANGED <<lifeVars, poolVars, connects, held, dur, conn, checked, verdict, result, arg, obs>>

\* a changed recycle: the connection is not put back
SendIdleLoses(q, c) == q

\* line 211: the queue after idle_send.send(arg)
SendIdle(q, c) == Append(q, c)

\* line 211: _ = self.idle_send.send(arg)
RecycleSend(p) ==
    /\ pc[p] = "rc_send"
    /\ idle' = SendIdle(idle, conn[p])
    /\ conn' = [conn EXCEPT ![p] = 0]
    /\ Goto(p, AfterRecycle(p))
    /\ obs' = ObsRecycled(p)
    /\ UNCHANGED <<lifeVars, max_open, max_idle, in_use, waits, connecting, checking, connections,
                   connects, held, dur, acc, checked, verdict, result, arg>>

\* line 213: if self.connections.load() > 0
RecycleLoad(p) ==
    /\ pc[p] = "rc_load"
    /\ IF connections > 0
       THEN /\ Goto(p, "rc_sub")
            /\ UNCHANGED <<conn, obs>>
       ELSE /\ Goto(p, AfterRecycle(p))
            /\ conn' = [conn EXCEPT ![p] = 0]
            /\ obs' = ObsRecycled(p)
    /\ UNCHANGED <<lifeVars, poolVars, connects, held, dur, acc, checked, verdict, result, arg>>

\* line 214: self.connections.fetch_sub(1); the connection is dropped
RecycleSub(p) ==
    /\ pc[p] = "rc_sub"
    /\ connections # U64Max - MaxUnderflow
    /\ connections' = FetchSub(connections)
    /\ conn' = [conn EXCEPT ![p] = 0]
    /\ Goto(p, AfterRecycle(p))
    /\ obs' = ObsRecycled(p)
    /\ UNCHANGED <<lifeVars, max_open, max_idle, in_use, waits, connecting, checking, idle,
                   connects, held, dur, acc, checked, verdict, result, arg>>

(***************************************************************************)
(* A task that holds checked guards is aborted or panics while it is not   *)
(* inside a call of the pool (tests/pool_test.rs, test_tokio_cancel and    *)
(* test_tokio_panic): its future is dropped, or its stack unwound, and the *)
(* guards it owns are dropped one after the other, each by                 *)
(* Drop for ConnectionGuard (guard.rs lines 62-67).  The task of the       *)
(* single client owns every guard.                                         *)
(***************************************************************************)
RECURSIVE SumOver(_, _)
SumOver(f, S) == IF S = {} THEN 0
                 ELSE LET x == CHOOSE y \in S : TRUE IN f[x] + SumOver(f, S \ {x})

\* the checked guards in the hands of callers
HeldTotal == SumOver(held, Conns)

\* task.abort() / panic!: the teardown of the task starts
AbortTask(p) ==
    /\ pc[p] = "idle"
    /\ HeldTotal > 0
    /\ result' = [result EXCEPT ![p] = "aborted"]
    /\ Goto(p, "abort")
    /\ obs' = ObsStart("abort", HeldTotal, 0, "None")
    /\ UNCHANGED <<lifeVars, poolVars, connects, held, dur, acc, conn, checked, verdict, arg>>

\* the next guard of the task is dropped: guard.rs lines 64-65 and pool.rs
\* line 209, as in DropGuard
AbortDrop(p, c) ==
    /\ pc[p] = "abort"
    /\ held[c] > 0
    /\ held' = [held EXCEPT ![c] = @ - 1]
    /\ conn' = [conn EXCEPT ![p] = c]
    /\ in_use' = FetchSub(in_use)
    /\ Goto(p, "rc_len")
    /\ UNCHANGED <<lifeVars, max_open, max_idle, waits, connecting, checking, connections, idle,
                   connects, dur, acc, checked, verdict, result, arg, obs>>

\* the task owns no guard any more: it is gone
AbortDone(p) ==
    /\ pc[p] = "abort"
    /\ HeldTotal = 0
    /\ result' = [result EXCEPT ![p] = "none"]
    /\ Goto(p, "idle")
    /\ obs' = ObsDone(obs)
    /\ UNCHANGED <<lifeVars, poolVars, connects, held, dur, acc, conn, checked, verdict, arg>>

Abort(p) ==
    \/ AbortTask(p)
    \/ \E c \in Conns : AbortDrop(p, c)
    \/ AbortDone(p)

(***************************************************************************)
(* flume::Receiver::try_recv: the queue it leaves (the received connection *)
(* is dropped at once by `_ = ...`; on an empty queue it returns Err), and *)
(* the number of connections it received.                                  *)
(***************************************************************************)
TryRecv(q) == IF q = <<>> THEN q ELSE Tail(q)

Received(q) == Len(q) - Len(TryRecv(q))

(***************************************************************************)
(* Pool::set_max_open (pool.rs lines 165-185).                             *)
(***************************************************************************)
\* a changed store: max_open is lowered but never raised
MaxOpenStoreNeverRaises(old, n) == IF n > old THEN old ELSE n

\* line 169: self.max_open.store(n): the value of max_open it leaves
MaxOpenStore(old, n) == n

\* a changed test: no argument is ignored
IgnoredNever(n) == FALSE

\* lines 166-168: if n == 0 { return; }
Ignored(n) == n = 0

\* lines 166-169: if n == 0 { return }; self.max_open.store(n)
SetMaxOpen(p, n) ==
    /\ pc[p] = "idle"
    /\ IF Ignored(n)
       THEN /\ obs' = ObsDone(ObsStart("set_max_open", n, 0, "None"))
            /\ UNCHANGED <<max_open, arg, pc>>
       ELSE /\ max_open' = MaxOpenStore(max_open, n)
            /\ arg' = [arg EXCEPT ![p] = n]
            /\ Goto(p, "mo_ld_max_idle")
            /\ obs' = ObsStart("set_max_open", n, 0, "None")
    /\ UNCHANGED <<lifeVars, max_idle, in_use, waits, connecting, checking, connections, idle,
                   connects, held, dur, acc, conn, checked, verdict, result>>

\* lines 171-172: if self.max_idle.load() > n
SetMaxOpenLoadMaxIdle(p) ==
    /\ pc[p] = "mo_ld_max_idle"
    /\ Goto(p, IF max_idle > arg[p] THEN "mo_st_max_idle" ELSE "mo_len")
    /\ UNCHANGED <<lifeVars, poolVars, connects, held, dur, acc, conn, checked, verdict, result, arg, obs>>

\* line 173: self.max_idle.store(n)
SetMaxOpenStoreMaxIdle(p) ==
    /\ pc[p] = "mo_st_max_idle"
    /\ max_idle' = arg[p]
    /\ Goto(p, "mo_len")
    /\ UNCHANGED <<lifeVars, max_open, in_use, waits, connecting, checking, connections, idle,
                   connects, held, dur, acc, conn, checked, verdict, result, arg, obs>>

\* lines 175-176, 181-183: loop { if self.idle_send.len() > n ... else break }
SetMaxOpenLen(p) ==
    /\ pc[p] = "mo_len"
    /\ IF Len(idle) > arg[p]
       THEN /\ Goto(p, "mo_try_recv")
            /\ UNCHANGED <<arg, obs>>
       ELSE /\ Goto(p, "idle")
            /\ arg' = [arg EXCEPT ![p] = 0]
            /\ obs' = ObsDone(obs)
    /\ UNCHANGED <<lifeVars, poolVars, connects, held, dur, acc, conn, checked, verdict, result>>

\* line 177: _ = self.idle_recv.try_recv()
SetMaxOpenTryRecv(p) ==
    /\ pc[p] = "mo_try_recv"
    /\ idle' = TryRecv(idle)
    /\ acc' = [acc EXCEPT ![p] = Received(idle)]
    /\ Goto(p, "mo_load")
    /\ UNCHANGED <<lifeVars, max_open, max_idle, in_use, waits, connecting, checking, connections,
                   connects, held, dur, conn, checked, verdict, result, arg, obs>>

\* line 178: if self.connections.load() > 0
SetMaxOpenLoad(p) ==
    /\ pc[p] = "mo_load"
    /\ Goto(p, IF connections > 0 THEN "mo_sub" ELSE "mo_len")
    /\ acc' = [acc EXCEPT ![p] = IF connections > 0 THEN acc[p] ELSE 0]
    /\ UNCHANGED <<lifeVars, poolVars, connects, held, dur, conn, checked, verdict, result, arg, obs>>

\* line 179: self.connections.fetch_sub(1)
SetMaxOpenSub(p) ==
    /\ pc[p] = "mo_sub"
    /\ connections # U64Max - MaxUnderflow
    /\ connections' = FetchSub(connections)
    /\ acc' = [acc EXCEPT ![p] = 0]
    /\ Goto(p, "mo_len")
    /\ UNCHANGED <<lifeVars, max_open, max_idle, in_use, waits, connecting, checking, idle,
                   connects, held, dur, conn, checked, verdict, result, arg, obs>>

(***************************************************************************)
(* Pool::set_max_idle_conns (pool.rs lines 192-201).                       *)
(***************************************************************************)
\* line 193: self.max_idle.store(n)
SetMaxIdleConns(p, n) ==
    /\ pc[p] = "idle"
    /\ max_idle' = n
    /\ arg' = [arg EXCEPT ![p] = n]
    /\ Goto(p, "mi_len")
    /\ obs' = ObsStart("set_max_idle_conns", n, 0, "None")
    /\ UNCHANGED <<lifeVars, max_open, in_use, waits, connecting, checking, connections, idle,
                   connects, held, dur, acc, conn, checked, verdict, result>>

\* line 195: while self.idle_send.len() > n
SetMaxIdleLen(p) ==
    /\ pc[p] = "mi_len"
    /\ IF Len(idle) > arg[p]
       THEN /\ Goto(p, "mi_try_recv")
            /\ UNCHANGED <<arg, obs>>
       ELSE /\ Goto(p, "idle")
            /\ arg' = [arg EXCEPT ![p] = 0]
            /\ obs' = ObsDone(obs)
    /\ UNCHANGED <<lifeVars, poolVars, connects, held, dur, acc, conn, checked, verdict, result>>

\* line 196: _ = self.idle_recv.try_recv()
SetMaxIdleTryRecv(p) ==
    /\ pc[p] = "mi_try_recv"
    /\ idle' = TryRecv(idle)
    /\ acc' = [acc EXCEPT ![p] = Received(idle)]
    /\ Goto(p, "mi_load")
    /\ UNCHANGED <<lifeVars, max_open, max_idle, in_use, waits, connecting, checking, connections,
                   connects, held, dur, conn, checked, verdict, result, arg, obs>>

\* line 197: if self.connections.load() > 0
SetMaxIdleLoad(p) ==
    /\ pc[p] = "mi_load"
    /\ Goto(p, IF connections > 0 THEN "mi_sub" ELSE "mi_len")
    /\ acc' = [acc EXCEPT ![p] = IF connections > 0 THEN acc[p] ELSE 0]
    /\ UNCHANGED <<lifeVars, poolVars, connects, held, dur, conn, checked, verdict, result, arg, obs>>

\* line 198: self.connections.fetch_sub(1)
SetMaxIdleSub(p) ==
    /\ pc[p] = "mi_sub"
    /\ connections # U64Max - MaxUnderflow
    /\ connections' = FetchSub(connections)
    /\ acc' = [acc EXCEPT ![p] = 0]
    /\ Goto(p, "mi_len")
    /\ UNCHANGED <<lifeVars, max_open, max_idle, in_use, waits, connecting, checking, idle,
                   connects, held, dur, conn, checked, verdict, result, arg, obs>>

(***************************************************************************)
(* Specifications.                                                         *)
(***************************************************************************)
\* the steps of get_timeout, with the drop of an unchecked guard
Acquire(p) ==
    \/ \E d \in Durations : GetTimeout(p, d)
    \/ LoadConnections(p)
    \/ LoadConnecting(p)
    \/ LoadMaxOpen(p)
    \/ IncConnecting(p)
    \/ ConnectOk(p)
    \/ ConnectErr(p)
    \/ Send(p)
    \/ IncConnections(p)
    \/ DecConnecting(p)
    \/ Park(p)
    \/ Recv(p)
    \/ IncChecking(p)
    \/ \E r \in {"Ok", "Err"} : CheckReturns(p, r)
    \/ CheckTimeout(p)
    \/ DecChecking(p)
    \/ Timeout(p)
    \/ Cancel(p)
    \/ GuardDropLoad(p)
    \/ GuardDropSub(p)
    \/ DecWaits(p)

\* the steps of dropping a checked guard
Release(p) ==
    \/ \E c \in Conns : DropGuard(p, c)
    \/ RecycleLen(p)
    \/ RecycleLoadMaxIdle(p)
    \/ RecycleSend(p)
    \/ RecycleLoad(p)
    \/ RecycleSub(p)

\* the steps of set_max_open and set_max_idle_conns
Resize(p) ==
    \/ \E n \in 0..MaxOpenArg : SetMaxOpen(p, n)
    \/ SetMaxOpenLoadMaxIdle(p)
    \/ SetMaxOpenStoreMaxIdle(p)
    \/ SetMaxOpenLen(p)
    \/ SetMaxOpenTryRecv(p)
    \/ SetMaxOpenLoad(p)
    \/ SetMaxOpenSub(p)
    \/ \E n \in 0..MaxIdleArg : SetMaxIdleConns(p, n)
    \/ SetMaxIdleLen(p)
    \/ SetMaxIdleTryRecv(p)
    \/ SetMaxIdleLoad(p)
    \/ SetMaxIdleSub(p)

\* Any number of threads use one pool concurrently.
Next == \E p \in Procs : Acquire(p) \/ Release(p) \/ Resize(p)

Spec == Init /\ [][Next]_vars

\* The pool after Pool::new(m) and set_max_open(n), n > 0, on the fresh
\* pool (max_idle is clamped from 32 to n); max_open is not changed again.
FixedInit ==
    /\ max_open \in 1..MaxOpenArg
    /\ max_idle = max_open
    /\ in_use = 0
    /\ waits = 0
    /\ connecting = 0
    /\ checking = 0
    /\ connections = 0
    /\ idle = <<>>
    /\ ClientsInit
    /\ NoLifetime
    /\ obs = ObsOff

FixedNext == \E p \in Procs : Acquire(p) \/ Release(p)

FixedSpec == FixedInit /\ [][FixedNext]_vars

\* One client thread that runs one operation after the other, as the
\* repository's unit tests do, watched by the observer.
SeqInit ==
    /\ PoolNew
    /\ ClientsInit
    /\ NoLifetime
    /\ obs = [NoObs EXCEPT !.on = TRUE]

SeqResize(p) ==
    \/ \E n \in 0..SeqMaxOpenArg : SetMaxOpen(p, n)
    \/ SetMaxOpenLoadMaxIdle(p)
    \/ SetMaxOpenStoreMaxIdle(p)
    \/ SetMaxOpenLen(p)
    \/ SetMaxOpenTryRecv(p)
    \/ SetMaxOpenLoad(p)
    \/ SetMaxOpenSub(p)
    \/ \E n \in 0..SeqMaxIdleArg : SetMaxIdleConns(p, n)
    \/ SetMaxIdleLen(p)
    \/ SetMaxIdleTryRecv(p)
    \/ SetMaxIdleLoad(p)
    \/ SetMaxIdleSub(p)

SeqNext == \E p \in SeqProcs : Acquire(p) \/ Release(p) \/ SeqResize(p) \/ Abort(p)

SeqSpec == SeqInit /\ [][SeqNext]_vars

\* The same client, the observer also keeping the last two finished
\* operations: a test that speaks of a sequence of calls.
LogInit ==
    /\ PoolNew
    /\ ClientsInit
    /\ NoLifetime
    /\ obs = [NoObs EXCEPT !.on = TRUE, !.log = TRUE]

LogResize(p) ==
    \/ \E n \in 0..LogMaxOpenArg : SetMaxOpen(p, n)
    \/ SetMaxOpenLoadMaxIdle(p)
    \/ SetMaxOpenStoreMaxIdle(p)
    \/ SetMaxOpenLen(p)
    \/ SetMaxOpenTryRecv(p)
    \/ SetMaxOpenLoad(p)
    \/ SetMaxOpenSub(p)
    \/ \E n \in 0..LogMaxIdleArg : SetMaxIdleConns(p, n)
    \/ SetMaxIdleLen(p)
    \/ SetMaxIdleTryRecv(p)
    \/ SetMaxIdleLoad(p)
    \/ SetMaxIdleSub(p)

LogNext == \E p \in SeqProcs : Acquire(p) \/ Release(p) \/ LogResize(p) \/ Abort(p)

LogSpec == LogInit /\ [][LogNext]_vars

\* Threads that call get() (no deadline, the future never dropped) and
\* release their guards, the pool as in FixedInit, with a manager whose
\* connect succeeds and whose check returns Ok unless it hangs and is cut
\* off by timeout_check.
\* Pool::get: get_timeout(None).  The callers are well behaved: whoever
\* holds a guard releases it, so a thread stays out of get() while guards
\* are held and every other thread is inside get().
Get(p) ==
    /\ HeldTotal > 0 => \E q \in Procs \ {p} : pc[q] \in {"idle", "rc_len", "rc_max_idle",
                                                            "rc_send", "rc_load", "rc_sub"}
    /\ GetTimeout(p, "None")

LiveAcquire(p) ==
    \/ Get(p)
    \/ LoadConnections(p)
    \/ LoadConnecting(p)
    \/ LoadMaxOpen(p)
    \/ IncConnecting(p)
    \/ ConnectOk(p)
    \/ Send(p)
    \/ IncConnections(p)
    \/ DecConnecting(p)
    \/ Recv(p)
    \/ IncChecking(p)
    \/ CheckReturns(p, "Ok")
    \/ CheckTimeout(p)
    \/ DecChecking(p)
    \/ GuardDropLoad(p)
    \/ GuardDropSub(p)
    \/ DecWaits(p)

LiveNext == \E p \in Procs : LiveAcquire(p) \/ Release(p)

\* What a fair scheduler and a manager that answers make happen: every
\* step of a thread inside a call, the answer Ok of connect and of check,
\* and the release of a guard that is held.  Calling get() and a hung
\* check are not forced.
Progress(p) ==
    \/ LoadConnections(p)
    \/ LoadConnecting(p)
    \/ LoadMaxOpen(p)
    \/ IncConnecting(p)
    \/ ConnectOk(p)
    \/ Send(p)
    \/ IncConnections(p)
    \/ DecConnecting(p)
    \/ Recv(p)
    \/ IncChecking(p)
    \/ CheckReturns(p, "Ok")
    \/ DecChecking(p)
    \/ GuardDropLoad(p)
    \/ GuardDropSub(p)
    \/ DecWaits(p)
    \/ Release(p)

LiveSpec == FixedInit /\ [][LiveNext]_vars /\ \A p \in Procs : WF_vars(Progress(p))

\* The same threads on a pool that keeps at most max_idle <= max_open idle
\* connections (set_max_idle_conns before the first get), with a manager
\* whose connect and check always succeed.
FreeInit ==
    /\ max_open \in 1..MaxOpenArg
    /\ max_idle \in 0..max_open
    /\ in_use = 0
    /\ waits = 0
    /\ connecting = 0
    /\ checking = 0
    /\ connections = 0
    /\ idle = <<>>
    /\ ClientsInit
    /\ NoLifetime
    /\ obs = ObsOff

FreeAcquire(p) ==
    \/ Get(p)
    \/ LoadConnections(p)
    \/ LoadConnecting(p)
    \/ LoadMaxOpen(p)
    \/ IncConnecting(p)
    \/ ConnectOk(p)
    \/ Send(p)
    \/ IncConnections(p)
    \/ DecConnecting(p)
    \/ Recv(p)
    \/ IncChecking(p)
    \/ CheckReturns(p, "Ok")
    \/ DecChecking(p)
    \/ DecWaits(p)

FreeNext == \E p \in Procs : FreeAcquire(p) \/ Release(p)

FreeSpec == FreeInit /\ [][FreeNext]_vars /\ \A p \in Procs : WF_vars(Progress(p))

\* test_pool_get with its acquires run by concurrent tasks: on the pool
\* with max_open = max_idle = the number of tasks, every task calls get()
\* once and keeps its guard; when all the calls have returned the guards are
\* dropped, and no call follows a drop.
InGet(q) == pc[q] \notin {"idle", "rc_len", "rc_max_idle", "rc_send", "rc_load", "rc_sub"}

Releasing(q) == pc[q] \in {"rc_len", "rc_max_idle", "rc_send", "rc_load", "rc_sub"}

NumTasks == Cardinality(Procs)

\* the guards are being dropped: a drop is under way or has put a
\* connection back while no call is running
DropsBegun ==
    \/ \E q \in Procs : Releasing(q)
    \/ idle # <<>> /\ \A q \in Procs : ~InGet(q)

HoldInit ==
    /\ max_open = NumTasks
    /\ max_idle = max_open
    /\ in_use = 0
    /\ waits = 0
    /\ connecting = 0
    /\ checking = 0
    /\ connections = 0
    /\ idle = <<>>
    /\ ClientsInit
    /\ NoLifetime
    /\ obs = ObsOff

HoldGet(p) ==
    /\ ~DropsBegun
    /\ HeldTotal + Cardinality({q \in Procs : InGet(q)}) < NumTasks
    /\ GetTimeout(p, "None")

HoldDrop(p) ==
    /\ \A q \in Procs : ~InGet(q)
    /\ HeldTotal = NumTasks \/ DropsBegun
    /\ \E c \in Conns : DropGuard(p, c)

HoldStep(p) ==
    \/ HoldGet(p)
    \/ LoadConnections(p)
    \/ LoadConnecting(p)
    \/ LoadMaxOpen(p)
    \/ IncConnecting(p)
    \/ ConnectOk(p)
    \/ Send(p)
    \/ IncConnections(p)
    \/ DecConnecting(p)
    \/ Recv(p)
    \/ IncChecking(p)
    \/ CheckReturns(p, "Ok")
    \/ DecChecking(p)
    \/ DecWaits(p)
    \/ HoldDrop(p)
    \/ RecycleLen(p)
    \/ RecycleLoadMaxIdle(p)
    \/ RecycleSend(p)

HoldNext == \E p \in Procs : HoldStep(p)

\* Every task is scheduled fairly, and connect and check answer.  (The
\* queue never holds max_idle connections when a guard is dropped, so recycle
\* always takes its send branch here.)
HoldSpec == HoldInit /\ [][HoldNext]_vars /\ \A p \in Procs : WF_vars(HoldStep(p))

\* test_concurrent_access: on the fresh pool with max_open = max_idle = the
\* number of tasks, every task calls get() once and drops the guard it
\* gets; the observer counts the calls.  (The queue never holds max_idle
\* connections when a guard is dropped, so recycle always takes its send
\* branch here.)
CycleInit ==
    /\ max_open = NumTasks
    /\ max_idle = max_open
    /\ in_use = 0
    /\ waits = 0
    /\ connecting = 0
    /\ checking = 0
    /\ connections = 0
    /\ idle = <<>>
    /\ ClientsInit
    /\ NoLifetime
    /\ obs = ObsCount

CycleGet(p) ==
    /\ obs.calls < NumTasks
    /\ GetTimeout(p, "None")

CycleStep(p) ==
    \/ CycleGet(p)
    \/ LoadConnections(p)
    \/ LoadConnecting(p)
    \/ LoadMaxOpen(p)
    \/ IncConnecting(p)
    \/ ConnectOk(p)
    \/ Send(p)
    \/ IncConnections(p)
    \/ DecConnecting(p)
    \/ Recv(p)
    \/ IncChecking(p)
    \/ CheckReturns(p, "Ok")
    \/ DecChecking(p)
    \/ DecWaits(p)
    \/ \E c \in Conns : DropGuard(p, c)
    \/ RecycleLen(p)
    \/ RecycleLoadMaxIdle(p)
    \/ RecycleSend(p)

CycleNext == \E p \in Procs : CycleStep(p)

CycleSpec == CycleInit /\ [][CycleNext]_vars

\* Concurrent acquires and releases on the pool of FixedInit, with a manager
\* whose connect succeeds and whose check returns Ok or an error; the
\* observer counts the calls and the connections discarded after a check
\* error.
CountInit ==
    /\ max_open \in 1..MaxOpenArg
    /\ max_idle = max_open
    /\ in_use = 0
    /\ waits = 0
    /\ connecting = 0
    /\ checking = 0
    /\ connections = 0
    /\ idle = <<>>
    /\ ClientsInit
    /\ NoLifetime
    /\ obs = ObsCount

CountGet(p) ==
    /\ obs.calls < MaxCalls
    /\ GetTimeout(p, "None")

CountAcquire(p) ==
    \/ CountGet(p)
    \/ LoadConnections(p)
    \/ LoadConnecting(p)
    \/ LoadMaxOpen(p)
    \/ IncConnecting(p)
    \/ ConnectOk(p)
    \/ Send(p)
    \/ IncConnections(p)
    \/ DecConnecting(p)
    \/ Recv(p)
    \/ IncChecking(p)
    \/ \E r \in {"Ok", "Err"} : CheckReturns(p, r)
    \/ DecChecking(p)
    \/ GuardDropLoad(p)
    \/ GuardDropSub(p)
    \/ DecWaits(p)

CountNext == \E p \in Procs : CountAcquire(p) \/ Release(p)

CountSpec == CountInit /\ [][CountNext]_vars

(***************************************************************************)
(* Lifetimes.  One client, a pool as in FixedInit whose manager is a       *)
(* DurationManager in any mode around an inner manager that counts its     *)
(* check calls, and a clock.                                               *)
(***************************************************************************)
Modes == {NoLimit, SkipInterval(LifeD), MaxLifetime(LifeD)}

\* pool.rs lines 230-232: self.max_lifetime.store(duration)
SetConnMaxLifetime(p, d) ==
    /\ pc[p] = "idle"
    /\ max_lifetime' = d
    /\ UNCHANGED <<mode, duration, instant, age, cell, now, poolVars, connects, held, pc,
                   dur, acc, conn, checked, verdict, result, arg, obs>>

\* plugin/duration_manager.rs lines 71-77: CheckModeAtomic::set_mode, both
\* stores, called by the only thread there is
SetMode(p, m) ==
    /\ pc[p] = "idle"
    /\ mode' = AsI8(m)
    /\ duration' = AsDuration(m)
    /\ UNCHANGED <<max_lifetime, instant, age, cell, now, poolVars, connects, held, pc, dur, acc, conn,
                   checked, verdict, result, arg, obs>>

\* Time passes: the age of the connected connection c reaches LifeD, or
\* goes beyond it.  A connection is never older than one connected before it.
Tick(c) ==
    /\ c <= connects
    /\ age[c] < 2
    /\ \A b \in 1..(c - 1) : age[b] > age[c]
    /\ age' = [age EXCEPT ![c] = @ + 1]
    /\ UNCHANGED <<max_lifetime, mode, duration, instant, cell, now, poolVars, connects,
                   held, pc, dur, acc, conn, checked, verdict, result, arg, obs>>

(***************************************************************************)
(* ConnectionLifecycleManager::cleanup_expired_connections                 *)
(* (plugin/connection_lifecycle_manager.rs lines 19-50).                   *)
(***************************************************************************)
Min(a, b) == IF a < b THEN a ELSE b

\* pool.rs lines 241-245: Pool::needs_timestamp
NeedsTimestamp == max_lifetime # "None"

\* lines 20-33: the two early returns; current_idle = idle_send.len();
\* check_limit = min(current_idle, 20).  acc[p] is the number of iterations
\* of the first loop still to run, arg[p] is expired_count.
CleanupExpired(p) ==
    /\ pc[p] = "idle"
    /\ IF max_lifetime = "None" \/ ~NeedsTimestamp
       THEN UNCHANGED <<pc, acc>>
       ELSE /\ acc' = [acc EXCEPT ![p] = Min(Len(idle), CleanupBatch)]
            /\ Goto(p, "cl_try_recv")
    /\ UNCHANGED <<lifeVars, poolVars, connects, held, dur, conn, checked, verdict, result,
                   arg, obs>>

\* lines 35-43: one iteration of for _ in 0..check_limit: try_recv; the
\* connection received is counted and dropped, whatever its age; on an empty
\* queue the loop is left
CleanupTryRecv(p) ==
    /\ pc[p] = "cl_try_recv"
    /\ IF acc[p] > 0 /\ idle # <<>>
       THEN /\ idle' = TryRecv(idle)
            /\ arg' = [arg EXCEPT ![p] = @ + Received(idle)]
            /\ acc' = [acc EXCEPT ![p] = @ - 1]
            /\ UNCHANGED pc
       ELSE /\ acc' = [acc EXCEPT ![p] = 0]
            /\ Goto(p, "cl_load")
            /\ UNCHANGED <<idle, arg>>
    /\ UNCHANGED <<lifeVars, max_open, max_idle, in_use, waits, connecting, checking,
                   connections, connects, held, dur, conn, checked, verdict, result, obs>>

\* lines 46-47: one iteration of for _ in 0..expired_count:
\* if self.pool.connections.load(SeqCst) > 0
CleanupLoad(p) ==
    /\ pc[p] = "cl_load"
    /\ IF arg[p] = 0
       THEN /\ Goto(p, "idle")
            /\ UNCHANGED arg
       ELSE IF connections > 0
       THEN /\ Goto(p, "cl_sub")
            /\ UNCHANGED arg
       ELSE /\ arg' = [arg EXCEPT ![p] = @ - 1]
            /\ UNCHANGED pc
    /\ UNCHANGED <<lifeVars, poolVars, connects, held, dur, acc, conn, checked, verdict,
                   result, obs>>

\* line 48: self.pool.connections.fetch_sub(1, SeqCst)
CleanupSub(p) ==
    /\ pc[p] = "cl_sub"
    /\ connections # U64Max - MaxUnderflow
    /\ connections' = FetchSub(connections)
    /\ arg' = [arg EXCEPT ![p] = @ - 1]
    /\ Goto(p, "cl_load")
    /\ UNCHANGED <<lifeVars, max_open, max_idle, in_use, waits, connecting, checking, idle,
                   connects, held, dur, acc, conn, checked, verdict, result, obs>>

LifeInit ==
    /\ PoolNew
    /\ ClientsInit
    /\ max_lifetime = "None"
    /\ \E m \in Modes : mode = AsI8(m) /\ duration = AsDuration(m)
    /\ instant = {}
    /\ age = [c \in Conns |-> 0]
    /\ cell = 0
    /\ now = 0
    /\ obs = ObsChecks

\* the client makes MaxCalls get() calls
LifeGet(p) ==
    /\ obs.calls < MaxCalls
    /\ GetTimeout(p, "None")

\* (The single client never finds max_idle connections in the queue when it
\* drops a guard, so recycle always takes its send branch here.)
LifeStep(p) ==
    \/ LifeGet(p)
    \/ LoadConnections(p)
    \/ LoadConnecting(p)
    \/ LoadMaxOpen(p)
    \/ IncConnecting(p)
    \/ ConnectOk(p)
    \/ Send(p)
    \/ IncConnections(p)
    \/ DecConnecting(p)
    \/ Recv(p)
    \/ IncChecking(p)
    \/ DurationManagerCheck(p)
    \/ \E r \in {"Ok", "Err"} : InnerCheckReturns(p, r)
    \/ DecChecking(p)
    \/ GuardDropLoad(p)
    \/ GuardDropSub(p)
    \/ DecWaits(p)
    \/ \E c \in Conns : DropGuard(p, c)
    \/ RecycleLen(p)
    \/ RecycleLoadMaxIdle(p)
    \/ RecycleSend(p)
    \/ \E d \in {"None", "Some"} : SetConnMaxLifetime(p, d)
    \/ \E m \in Modes : SetMode(p, m)
    \/ CleanupExpired(p)
    \/ CleanupTryRecv(p)
    \/ CleanupLoad(p)
    \/ CleanupSub(p)

LifeNext ==
    \/ \E p \in SeqProcs : LifeStep(p)
    \/ \E c \in Conns : Tick(c)

LifeSpec == LifeInit /\ [][LifeNext]_vars

(***************************************************************************)
(* The skip interval.  One client, a fresh pool whose manager is           *)
(* DurationManager::new(inner, CheckMode::SkipInterval(d)), the inner      *)
(* manager counting its check calls and answering Ok.  The client makes    *)
(* its get() calls back to back and drops each guard; between two calls it *)
(* may sleep.                                                              *)
(***************************************************************************)
SkipInit ==
    /\ LifeInit
    /\ GetMode = SkipInterval(LifeD)

\* tokio::time::sleep between two acquisitions
Sleep(c) ==
    /\ \A p \in SeqProcs : pc[p] = "idle"
    /\ Tick(c)

SkipStep(p) ==
    \/ LifeGet(p)
    \/ LoadConnections(p)
    \/ LoadConnecting(p)
    \/ LoadMaxOpen(p)
    \/ IncConnecting(p)
    \/ ConnectOk(p)
    \/ Send(p)
    \/ IncConnections(p)
    \/ DecConnecting(p)
    \/ Recv(p)
    \/ IncChecking(p)
    \/ DurationManagerCheck(p)
    \/ InnerCheckReturns(p, "Ok")
    \/ DecChecking(p)
    \/ DecWaits(p)
    \/ \E c \in Conns : DropGuard(p, c)
    \/ RecycleLen(p)
    \/ RecycleLoadMaxIdle(p)
    \/ RecycleSend(p)

SkipNext ==
    \/ \E p \in SeqProcs : SkipStep(p)
    \/ \E c \in Conns : Sleep(c)

SkipSpec == SkipInit /\ [][SkipNext]_vars

(***************************************************************************)
(* CheckModeAtomic (plugin/duration_manager.rs lines 54-85).  Two threads  *)
(* share the mode of one DurationManager; each store and each load of      *)
(* set_mode and get_mode is one step.                                      *)
(***************************************************************************)
\* the arguments of CheckModeAtomic::new and set_mode
ModeArgs == {NoLimit, SkipInterval(LifeD), MaxLifetime(2 * LifeD)}

\* the observer of the mode: the arguments passed to new and set_mode so far
ObsMode(S) == [on |-> FALSE, count |-> FALSE, passed |-> S]

modeFrame == <<now, max_lifetime, instant, age, cell, poolVars, connects, held, dur,
               conn, checked, verdict>>

\* lines 61-68: CheckModeAtomic::new(m)
ModeInit ==
    /\ PoolNew
    /\ ClientsInit
    /\ max_lifetime = "None"
    /\ instant = {}
    /\ age = [c \in Conns |-> 0]
    /\ cell = 0
    /\ now = 0
    /\ \E m \in ModeArgs :
          /\ mode = AsI8(m)
          /\ duration = AsDuration(m)
          /\ obs = ObsMode({m})

\* line 72: set_mode(m) begins: self.mode.store(mode.as_i8(), Relaxed)
SetModeStoreMode(p, m) ==
    /\ pc[p] = "idle"
    /\ mode' = AsI8(m)
    /\ arg' = [arg EXCEPT ![p] = m]
    /\ obs' = ObsMode(obs.passed \cup {m})
    /\ Goto(p, "sm_duration")
    /\ UNCHANGED <<modeFrame, duration, acc, result>>

\* lines 73-76: self.duration.store(mode.as_duration().load(Relaxed), Relaxed)
SetModeStoreDuration(p) ==
    /\ pc[p] = "sm_duration"
    /\ duration' = AsDuration(arg[p])
    /\ Goto(p, "idle")
    /\ UNCHANGED <<modeFrame, mode, acc, arg, result, obs>>

\* line 81: get_mode begins: let mode = self.mode.load(Relaxed)
GetModeLoadMode(p) ==
    /\ pc[p] = "idle"
    /\ acc' = [acc EXCEPT ![p] = mode]
    /\ Goto(p, "gm_duration")
    /\ UNCHANGED <<modeFrame, mode, duration, arg, result, obs>>

\* lines 82-83: let duration = self.duration.load(Relaxed);
\* CheckMode::new(mode, duration)
GetModeLoadDuration(p) ==
    /\ pc[p] = "gm_duration"
    /\ result' = [result EXCEPT ![p] = CheckModeNew(acc[p], duration)]
    /\ Goto(p, "idle")
    /\ UNCHANGED <<modeFrame, mode, duration, acc, arg, obs>>

ModeNext ==
    \E p \in Procs :
        \/ \E m \in ModeArgs : SetModeStoreMode(p, m)
        \/ SetModeStoreDuration(p)
        \/ GetModeLoadMode(p)
        \/ GetModeLoadDuration(p)

ModeSpec == ModeInit /\ [][ModeNext]_vars

(***************************************************************************)
(* AtomicDuration (src/src/duration.rs).  Two threads share one cell made  *)
(* by AtomicDuration::new(x); each call of store, get and take is one      *)
(* atomic access to the cell.                                              *)
(***************************************************************************)
\* An Option<Duration>: None, or Some(Duration::new(secs, nanos))
None == [some |-> FALSE, secs |-> 0, nanos |-> 0]
Some(secs, nanos) == [some |-> TRUE, secs |-> secs, nanos |-> nanos]

\* u64::saturating_mul, u64::saturating_add
SaturatingMul(a, b) == IF b > 0 /\ a > U64Max \div b THEN U64Max ELSE a * b
SaturatingAdd(a, b) == IF a > U64Max - b THEN U64Max ELSE a + b

\* lines 54-60: dur_to_ms
DurToMs(d) ==
    LET ns == d.nanos
        ms == (ns + NanosPerMilli - 1) \div NanosPerMilli
    IN  SaturatingAdd(SaturatingMul(d.secs, MsPerSec), ms)

\* lines 12-15 and 31-34: what new and store put into the cell
Encode(x) == IF ~x.some THEN 0 ELSE DurToMs(x)

\* Duration::from_millis
FromMillis(ms) == Some(ms \div MsPerSec, (ms % MsPerSec) * NanosPerMilli)

\* lines 22-25 and 40-43: what get and take make of the cell's value
Decode(v) == IF v = 0 THEN None ELSE FromMillis(v)

\* the arguments of new and store
DurationArgs ==
    {None, Some(0, 0), Some(0, 1), Some(0, NanosPerMilli), Some(0, NanosPerMilli + 1),
     Some(0, NanosPerSec - 1), Some(1, 0), Some(U64Max \div MsPerSec, NanosPerSec - 1),
     Some(U64Max, 0)}

\* the observer of the cell: the last call that wrote the cell, the value it
\* wrote (None for a take), and the take calls that returned Some since the
\* last new or store
ObsCell(op, x, n) == [on |-> FALSE, count |-> FALSE, op |-> op, last |-> x, somes |-> n]

cellFrame == <<now, max_lifetime, mode, instant, age, duration, poolVars, connects,
               held, pc, dur, acc, conn, checked, verdict>>

CellInit ==
    /\ PoolNew
    /\ connects = 0
    /\ held = [c \in Conns |-> 0]
    /\ pc = [p \in Procs |-> "idle"]
    /\ dur = [p \in Procs |-> "None"]
    /\ acc = [p \in Procs |-> 0]
    /\ conn = [p \in Procs |-> 0]
    /\ checked = [p \in Procs |-> FALSE]
    /\ verdict = [p \in Procs |-> "none"]
    /\ result = [p \in Procs |-> None]
    /\ arg = [p \in Procs |-> None]
    /\ max_lifetime = "None"
    /\ mode = 0
    /\ duration = 0
    /\ instant = {}
    /\ age = [c \in Conns |-> 0]
    /\ now = 0
    /\ \E x \in DurationArgs :
          /\ cell = Encode(x)
          /\ obs = ObsCell("new", x, 0)

\* lines 30-36: AtomicDuration::store(x)
Store(p, x) ==
    /\ cell' = Encode(x)
    /\ arg' = [arg EXCEPT ![p] = x]
    /\ obs' = ObsCell("store", x, 0)
    /\ UNCHANGED <<cellFrame, result>>

\* lines 20-26: AtomicDuration::get
AtomicGet(p) ==
    /\ result' = [result EXCEPT ![p] = Decode(cell)]
    /\ arg' = [arg EXCEPT ![p] = None]
    /\ UNCHANGED <<cellFrame, cell, obs>>

\* line 40: what self.0.swap(0, Relaxed) leaves in a cell that holds v
SwappedKeeps(v) == v

Swapped(v) == 0

\* lines 39-45: AtomicDuration::take
Take(p) ==
    /\ result' = [result EXCEPT ![p] = Decode(cell)]
    /\ cell' = Swapped(cell)
    /\ arg' = [arg EXCEPT ![p] = None]
    /\ obs' = ObsCell("take", None, IF Decode(cell).some THEN obs.somes + 1 ELSE obs.somes)
    /\ UNCHANGED cellFrame

CellNext ==
    \E p \in Procs :
        \/ \E x \in DurationArgs : Store(p, x)
        \/ AtomicGet(p)
        \/ Take(p)

CellSpec == CellInit /\ [][CellNext]_vars

(***************************************************************************)
(* CheckDurationConnectionManager (plugin/check_duration_manager.rs).  One *)
(* client, a fresh pool whose manager is                                   *)
(* CheckDurationConnectionManager::new(inner, d), the inner manager        *)
(* counting its check calls, and the system clock.  The manager keeps the  *)
(* time of the last delegated check in an AtomicDuration, that is in whole *)
(* milliseconds rounded up.                                                *)
(***************************************************************************)
\* the nanoseconds of a tick of the clock
TickNanos == NanosPerMilli \div TicksPerMilli

\* the ticks of the interval d = LifeD
IntervalTicks == LifeMillis * TicksPerMilli

\* the clock is read until it shows MaxClock ticks
MaxClock == 4 * IntervalTicks

\* lines 92-94: SystemTime::now().duration_since(UNIX_EPOCH), a Duration
NowDuration == Some((now * TickNanos) \div NanosPerSec, (now * TickNanos) % NanosPerSec)

\* Duration::as_nanos
AsNanos(x) == x.secs * NanosPerSec + x.nanos

\* Option::unwrap_or_default
UnwrapOrDefault(x) == IF x.some THEN x ELSE Some(0, 0)

\* line 97: now.saturating_sub(last_check), in nanoseconds
SaturatingSub(a, b) == IF AsNanos(a) > AsNanos(b) THEN AsNanos(a) - AsNanos(b) ELSE 0

\* the observer of a test whose inner manager counts its check calls, and
\* the clock at the last of these calls
ObsThrottle == [on |-> FALSE, count |-> TRUE, calls |-> 0, discards |-> 0, checks |-> 0,
                at |-> 0]

\* lines 56-62: CheckDurationConnectionManager::new: instant is
\* AtomicDuration::new(Some(Duration::from_secs(0))); the clock shows a time
\* that is at least d after UNIX_EPOCH, at any fraction of a millisecond
ThrottleInit ==
    /\ PoolNew
    /\ ClientsInit
    /\ max_lifetime = "None"
    /\ mode = 0
    /\ duration = 0
    /\ instant = {}
    /\ age = [c \in Conns |-> 0]
    /\ cell = Encode(Some(0, 0))
    /\ now \in IntervalTicks..(2 * IntervalTicks - 1)
    /\ obs = ObsThrottle

\* lines 91-102 (CheckDurationConnectionManager::check) up to its await:
\* the clock and the instant are read; when less than d has passed since
\* the instant, check returns Ok(()) at once; otherwise the instant is set
\* to now and the inner manager's check is called.  (The client is the only
\* thread there is, so the load and the store of the instant are not
\* separated.)
ThrottleCheck(p) ==
    /\ pc[p] = "check"
    /\ IF SaturatingSub(NowDuration, UnwrapOrDefault(Decode(cell))) < LifeD
       THEN /\ Checked(p, "Ok", FALSE)
            /\ UNCHANGED cell
       ELSE /\ cell' = Encode(NowDuration)
            /\ Goto(p, "inner")
            /\ obs' = [ObsInner(obs, TRUE) EXCEPT !.at = now]
            /\ UNCHANGED <<max_lifetime, mode, duration, instant, age, poolVars,
                           connects, held, dur, acc, conn, checked, verdict, result, arg>>
    /\ UNCHANGED now

\* time passes
Clock ==
    /\ now < MaxClock
    /\ now' = now + 1
    /\ UNCHANGED <<max_lifetime, mode, duration, instant, age, cell, poolVars, connects,
                   held, pc, dur, acc, conn, checked, verdict, result, arg, obs>>

ThrottleStep(p) ==
    \/ LifeGet(p)
    \/ LoadConnections(p)
    \/ LoadConnecting(p)
    \/ LoadMaxOpen(p)
    \/ IncConnecting(p)
    \/ ConnectOk(p)
    \/ Send(p)
    \/ IncConnections(p)
    \/ DecConnecting(p)
    \/ Recv(p)
    \/ IncChecking(p)
    \/ ThrottleCheck(p)
    \/ \E r \in {"Ok", "Err"} : InnerCheckReturns(p, r)
    \/ DecChecking(p)
    \/ GuardDropLoad(p)
    \/ GuardDropSub(p)
    \/ DecWaits(p)
    \/ \E c \in Conns : DropGuard(p, c)
    \/ RecycleLen(p)
    \/ RecycleLoadMaxIdle(p)
    \/ RecycleSend(p)

ThrottleNext ==
    \/ \E p \in SeqProcs : ThrottleStep(p)
    \/ Clock

ThrottleSpec == ThrottleInit /\ [][ThrottleNext]_vars

\* What CheckDurationConnectionManager does under ThrottleSpec, obs.at
\* being the clock at the last call of the inner check: the first check on
\* the fresh pool calls the inner check; a check made less than d after the
\* last call of the inner check does not call it; a check made d + 1 ms or
\* more after it does.
ThrottleSkipsAfterCheck ==
    [][\A p \in SeqProcs :
          (pc[p] = "check" /\ pc'[p] # "check")
              => /\ obs.checks = 0 => obs'.checks = 1
                 /\ (obs.checks > 0 /\ now - obs.at < IntervalTicks)
                        => obs'.checks = obs.checks
                 /\ (obs.checks > 0 /\ now - obs.at >= IntervalTicks + TicksPerMilli)
                        => obs'.checks = obs.checks + 1]_vars

\* What it does not do: call the inner check in every check made more than
\* d after the last call.  The instant is stored in whole milliseconds
\* rounded up (duration.rs lines 54-60), so it lies up to 1 ms after the
\* call, and a check made less than d after the stored instant is skipped.
ThrottleChecksAfterInterval ==
    [][\A p \in SeqProcs :
          (pc[p] = "check" /\ pc'[p] # "check" /\ obs.checks > 0
                /\ now - obs.at > IntervalTicks)
              => obs'.checks = obs.checks + 1]_vars

(***************************************************************************)
(* The public functions behind the pool's operations.  ConnectionGuard::new *)
(* and ConnectionGuard::set_checked (guard.rs lines 15-29) and              *)
(* Pool::recycle (pool.rs line 208) are pub: besides get_timeout, which     *)
(* calls the first two, and the drop of a guard, which calls the third, a   *)
(* caller of the crate can call them itself.  The client of ApiSpec does:   *)
(* it wraps a connection it made with manager.connect() in a guard of its   *)
(* own, sets and clears the checked flag of the guards it owns, drops them, *)
(* and hands a connection it made to recycle.  The counters then no longer  *)
(* count what the pool made: the drop of a guard built by the caller takes  *)
(* connections down for a connection the pool never counted, set_checked    *)
(* (true) on a checked guard counts it in in_use a second time, and recycle *)
(* of a connection that was not in use takes in_use below zero.  The other  *)
(* specifications have clients that use the pool through get, get_timeout,  *)
(* the drop of the guards these return, and the setters.                    *)
(***************************************************************************)
\* guard.rs lines 15-21: ConnectionGuard::new(conn, pool) with a
\* connection the caller got from manager.connect(): checked is false
GuardNew(p) ==
    /\ pc[p] = "idle"
    /\ connects < ApiMaxConnects
    /\ connects' = connects + 1
    /\ conn' = [conn EXCEPT ![p] = connects + 1]
    /\ checked' = [checked EXCEPT ![p] = FALSE]
    /\ Goto(p, "own")
    /\ UNCHANGED <<lifeVars, poolVars, held, dur, acc, verdict, result, arg, obs>>

\* guard.rs lines 24-29: guard.set_checked(b) on a guard that get() returned
\* (c is its connection): with b the guard is counted in in_use once more;
\* without b it is unchecked from now on
SetCheckedHeld(p, c, b) ==
    /\ pc[p] = "idle"
    /\ held[c] > 0
    /\ b => in_use < ApiMaxInUse
    /\ in_use' = SetChecked(b, in_use)
    /\ IF b
       THEN UNCHANGED <<held, conn, checked, pc>>
       ELSE /\ held' = [held EXCEPT ![c] = @ - 1]
            /\ conn' = [conn EXCEPT ![p] = c]
            /\ checked' = [checked EXCEPT ![p] = FALSE]
            /\ Goto(p, "own")
    /\ UNCHANGED <<lifeVars, max_open, max_idle, waits, connecting, checking, connections,
                   idle, connects, dur, acc, verdict, result, arg, obs>>

\* guard.rs lines 24-29: guard.set_checked(true) on the unchecked guard the
\* caller owns: it is a checked guard from now on
SetCheckedOwn(p) ==
    /\ pc[p] = "own"
    /\ in_use < ApiMaxInUse
    /\ in_use' = SetChecked(TRUE, in_use)
    /\ held' = [held EXCEPT ![conn[p]] = @ + 1]
    /\ conn' = [conn EXCEPT ![p] = 0]
    /\ Goto(p, "idle")
    /\ UNCHANGED <<lifeVars, max_open, max_idle, waits, connecting, checking, connections,
                   idle, connects, dur, acc, checked, verdict, result, arg, obs>>

\* guard.rs line 59: the caller drops the unchecked guard it owns:
\* if self.pool.connections.load() > 0
OwnDropLoad(p) ==
    /\ pc[p] = "own"
    /\ Goto(p, IF DropDecrements(connections) THEN "own_sub" ELSE "idle")
    /\ conn' = [conn EXCEPT ![p] = IF DropDecrements(connections) THEN conn[p] ELSE 0]
    /\ UNCHANGED <<lifeVars, poolVars, connects, held, dur, acc, checked, verdict, result,
                   arg, obs>>

\* guard.rs line 60: self.pool.connections.fetch_sub(1); the connection is dropped
OwnDropSub(p) ==
    /\ pc[p] = "own_sub"
    /\ connections' = FetchSub(connections)
    /\ conn' = [conn EXCEPT ![p] = 0]
    /\ Goto(p, "idle")
    /\ UNCHANGED <<lifeVars, max_open, max_idle, in_use, waits, connecting, checking, idle,
                   connects, held, dur, acc, checked, verdict, result, arg, obs>>

\* pool.rs lines 208-209: pool.recycle(conn) with a connection the caller
\* got from manager.connect(): recycle starts with self.in_use.fetch_sub(1)
PoolRecycle(p) ==
    /\ pc[p] = "idle"
    /\ connects < ApiMaxConnects
    /\ connects' = connects + 1
    /\ conn' = [conn EXCEPT ![p] = connects + 1]
    /\ in_use' = FetchSub(in_use)
    /\ Goto(p, "rc_len")
    /\ UNCHANGED <<lifeVars, max_open, max_idle, waits, connecting, checking, connections,
                   idle, held, dur, acc, checked, verdict, result, arg, obs>>

ApiStep(p) ==
    \/ GetTimeout(p, "None")
    \/ LoadConnections(p)
    \/ LoadConnecting(p)
    \/ LoadMaxOpen(p)
    \/ IncConnecting(p)
    \/ ConnectOk(p)
    \/ Send(p)
    \/ IncConnections(p)
    \/ DecConnecting(p)
    \/ Recv(p)
    \/ IncChecking(p)
    \/ \E r \in {"Ok", "Err"} : CheckReturns(p, r)
    \/ DecChecking(p)
    \/ GuardDropLoad(p)
    \/ GuardDropSub(p)
    \/ DecWaits(p)
    \/ Release(p)
    \/ GuardNew(p)
    \/ \E c \in Conns, b \in BOOLEAN : SetCheckedHeld(p, c, b)
    \/ SetCheckedOwn(p)
    \/ OwnDropLoad(p)
    \/ OwnDropSub(p)
    \/ PoolRecycle(p)

ApiNext == \E p \in SeqProcs : ApiStep(p)

ApiSpec == FixedInit /\ [][ApiNext]_vars

(***************************************************************************)
(* What the claims speak of.                                               *)
(***************************************************************************)
\* the threads whose code owns a connection: a connect() call in flight or
\* its result not yet sent, a guard under validation or about to be
\* returned or dropped, the connection of a guard in recycle
Owning == {p \in Procs : conn[p] # 0}

\* the resources that exist, connect calls in flight included
Live == Len(idle) + HeldTotal + Cardinality(Owning)

\* the number of owners of connection c
Owners(c) == held[c]
             + Cardinality({p \in Procs : conn[p] = c})
             + Cardinality({i \in DOMAIN idle : idle[i] = c})

\* the live checked guards: those callers hold, and those get_timeout has
\* marked checked and is about to return
LiveChecked == HeldTotal + Cardinality({p \in Procs : checked[p] /\ conn[p] # 0})

\* no operation is in progress
Quiescent == \A p \in Procs : pc[p] = "idle"

(***************************************************************************)
(* C1.  With max_open constant, in every reachable state of concurrent     *)
(* acquires and releases connections <= max_open, in_use <= max_open and   *)
(* idle <= max_open.  (Checked under FixedSpec; the code violates it.)     *)
(***************************************************************************)
C1_CountersWithinMaxOpen ==
    /\ connections <= max_open
    /\ in_use <= max_open
    /\ Len(idle) <= max_open

(***************************************************************************)
(* C2.  With max_open constant, the resources that exist (idle, owned by a *)
(* guard, or being connected) never exceed max_open, and neither do the    *)
(* guards callers hold.  (Checked under FixedSpec; the code violates it.)  *)
(***************************************************************************)
C2_LiveWithinMaxOpen ==
    /\ Live <= max_open
    /\ HeldTotal <= max_open

(***************************************************************************)
(* C3.  Whenever get_timeout hands a guard to its caller, manager.check    *)
(* returned Ok for that guard's connection after the connection was last   *)
(* dequeued; a connection whose check returned Err or timed out is not     *)
(* handed out.                                                             *)
(***************************************************************************)
C3_HandedOutPassedCheck ==
    [][\A c \in Conns :
          held'[c] > held[c] =>
              \E p \in Procs : /\ conn[p] = c
                               /\ pc[p] = "dec_waits"
                               /\ pc'[p] = "idle"
                               /\ verdict[p] = "Ok"]_vars

\* a guard has been handed out while the check of another connection failed
C3_Witness ==
    /\ HeldTotal > 0
    /\ \E p \in Procs : verdict[p] = "Err"

(***************************************************************************)
(* C4.  Every connection has at most one owner: it is never in the idle    *)
(* queue and in a guard, never in two guards, never twice in the queue.    *)
(***************************************************************************)
C4_OneOwner == \A c \in Conns : Owners(c) <= 1

\* one connection is idle while another is in a guard under validation
C4_Witness ==
    /\ idle # <<>>
    /\ \E p \in Procs : pc[p] = "check" /\ conn[p] # 0

(***************************************************************************)
(* C5.  Whenever no operation is in progress (so waits = 0), after any     *)
(* interleaving of acquires, releases, cancellations, set_max_open and     *)
(* set_max_idle_conns, idle + in_use = connections.  (The code violates    *)
(* it.)                                                                    *)
(***************************************************************************)
C5_QuiescentSum ==
    (waits = 0 /\ Quiescent) => Len(idle) + in_use = connections

(***************************************************************************)
(* C6.  After every atomic step, in_use + idle + connecting = connections. *)
(* (The code violates it.)                                                 *)
(***************************************************************************)
C6_ConnectionsIsSum == in_use + Len(idle) + connecting = connections

(***************************************************************************)
(* C7.  in_use is the number of live checked guards.                       *)
(***************************************************************************)
C7_InUseIsLiveChecked == in_use = LiveChecked

\* one checked guard is being released (in_use already decremented) while
\* another has been marked checked and is about to be returned
C7_Witness ==
    /\ in_use = 1
    /\ \E p \in Procs : pc[p] \in {"rc_len", "rc_max_idle", "rc_send", "rc_load", "rc_sub"}
    /\ \E p \in Procs : checked[p] /\ pc[p] \in {"dec_checking", "dec_waits"}

(***************************************************************************)
(* C8.  Dropping a checked guard first decrements in_use by one; then it   *)
(* appends the connection to the idle queue if and only if idle < max_idle *)
(* at that moment, and otherwise drops the connection and decrements       *)
(* connections by one, not below zero.  Nothing else changes.  (A single   *)
(* client: SeqSpec.)                                                       *)
(***************************************************************************)
C8_RecycleEffect ==
    obs.op = "drop" =>
        /\ in_use = obs.pre.in_use - 1
        /\ waits = obs.pre.waits
        /\ connecting = obs.pre.connecting
        /\ checking = obs.pre.checking
        /\ max_open = obs.pre.max_open
        /\ max_idle = obs.max_idle
        /\ obs.result = "running" => idle = obs.queue
        /\ obs.result = "done" =>
              IF obs.pre.idle < obs.max_idle
              THEN /\ idle = Append(obs.queue, obs.c)
                   /\ connections = obs.pre.connections
              ELSE /\ idle = obs.queue
                   /\ connections = (IF obs.pre.connections > 0
                                     THEN obs.pre.connections - 1 ELSE 0)

\* a guard was dropped while the idle queue was full and not empty
C8_Witness ==
    /\ obs.op = "drop"
    /\ obs.result = "done"
    /\ obs.pre.idle >= obs.max_idle
    /\ obs.pre.idle > 0
    /\ connections = obs.pre.connections - 1

(***************************************************************************)
(* C9.  The drop of an unchecked guard decreases connections by exactly    *)
(* one and does not re-queue the connection; no step of the drop of a      *)
(* checked guard increases connections.  (The code violates it.)           *)
(***************************************************************************)
C9_GuardDropConnections ==
    [][\A p \in Procs :
          /\ (pc[p] \in {"g_load", "g_sub"} /\ pc'[p] \notin {"g_load", "g_sub"})
                => (connections' = connections - 1 /\ idle' = idle)
          /\ (pc[p] \in {"rc_len", "rc_max_idle", "rc_send", "rc_load", "rc_sub"}
              /\ pc'[p] # pc[p])
                => connections' <= connections]_vars

(***************************************************************************)
(* C10.  A get_timeout with a zero duration on a saturated pool (max_open  *)
(* checked guards held, idle queue empty) returns the error "get_timeout"  *)
(* and nothing else (it returns nothing when its caller drops it while it  *)
(* is pending), calls connect not once, and leaves connections, in_use,    *)
(* idle, connecting, checking and waits as they were.  (A single client:   *)
(* SeqSpec.)                                                               *)
(***************************************************************************)
C10_ZeroTimeoutSaturated ==
    ( /\ obs.op = "get_timeout"
      /\ obs.d = "Zero"
      /\ obs.pre.in_use = obs.pre.max_open
      /\ obs.pre.idle = 0 )
    => /\ obs.result \in {"running", "cancelled", "get_timeout"}
       /\ connects = obs.connects
       /\ obs.result \in {"cancelled", "get_timeout"} => State = obs.pre

\* such a call has returned
C10_Witness ==
    /\ obs.op = "get_timeout"
    /\ obs.d = "Zero"
    /\ obs.pre.in_use = obs.pre.max_open
    /\ obs.pre.idle = 0
    /\ HeldTotal = max_open
    /\ obs.result = "get_timeout"

(***************************************************************************)
(* C11.  With n guards held, the idle queue empty and max_open = n, after  *)
(* set_max_open(n+1) the next zero-timeout get_timeout succeeds with       *)
(* exactly one connect (the manager connecting and checking at once and    *)
(* without error); with that guard held too, the zero-timeout get_timeout  *)
(* after it fails with the error "get_timeout" and connects nothing (a     *)
(* call that its caller drops while it is pending returns nothing).  (A    *)
(* single client whose last two calls are kept: LogSpec.)                  *)
(***************************************************************************)
\* what a manager does other than return Ok at once: connect or check
\* returns an error, or is still pending when a deadline is looked at or
\* the caller drops the call
ManagerFaults == {<<"err", "connect">>, <<"err", "check">>, <<"elapsed", "check">>,
                  <<"deadline", "connect">>, <<"deadline", "check">>,
                  <<"dropped", "connect">>, <<"dropped", "check">>}

\* call k was set_max_open(n+1) on a pool with n = max_open guards held
\* and nothing idle
RaisedWhenSaturated(k) ==
    /\ k.op = "set_max_open"
    /\ k.in_use = k.max_open
    /\ k.idle = 0
    /\ k.n = k.max_open + 1

ZeroTimeoutGet == obs.op = "get_timeout" /\ obs.d = "Zero"

C11_OneMoreAfterRaise ==
    /\ (ZeroTimeoutGet /\ RaisedWhenSaturated(obs.last)
           /\ obs.ev \cap ManagerFaults = {})
        => /\ obs.result \in {"running", "ok"}
           /\ obs.result = "ok" => /\ connects = obs.connects + 1
                                   /\ in_use = obs.pre.in_use + 1
                                   /\ HeldTotal = obs.last.n
    /\ (ZeroTimeoutGet /\ RaisedWhenSaturated(obs.before)
           /\ obs.last.op = "get_timeout" /\ obs.last.d = "Zero"
           /\ obs.last.result = "ok")
        => /\ obs.result \in {"running", "cancelled", "get_timeout"}
           /\ connects = obs.connects

\* both zero-timeout calls after the raise have returned
C11_Witness ==
    /\ ZeroTimeoutGet
    /\ RaisedWhenSaturated(obs.before)
    /\ obs.last.op = "get_timeout" /\ obs.last.d = "Zero" /\ obs.last.result = "ok"
    /\ obs.result = "get_timeout"
    /\ HeldTotal = max_open

(***************************************************************************)
(* C12.  set_max_open(0) is ignored: it returns at once and max_open,      *)
(* max_idle, the idle queue and every counter are as before the call.  (A  *)
(* single client: SeqSpec.)                                                *)
(***************************************************************************)
C12_SetMaxOpenZeroIgnored ==
    (obs.op = "set_max_open" /\ obs.n = 0)
    => /\ obs.result = "done"
       /\ State = obs.pre
       /\ idle = obs.queue
       /\ max_idle = obs.max_idle

\* set_max_open(0) was called on a pool with an idle connection, a guard
\* held, and limits other than those of Pool::new
C12_Witness ==
    /\ obs.op = "set_max_open"
    /\ obs.n = 0
    /\ idle # <<>>
    /\ in_use > 0
    /\ max_open # DefaultMaxOpen
    /\ max_idle > 0

(***************************************************************************)
(* C13.  set_max_open(n), n > 0, leaves max_open = n and                   *)
(* max_idle = min(max_idle before, n): when it stores max_idle it lowers   *)
(* it to n, when it does not max_idle is at most n, and it never raises    *)
(* max_idle.  (The code violates it: the load of line 172 and the store of *)
(* line 173 are two steps.)                                                *)
(***************************************************************************)
C13_SetMaxOpenLimits ==
    [][\A p \in Procs :
          /\ (pc[p] = "idle" /\ pc'[p] = "mo_ld_max_idle") => max_open' = arg'[p]
          /\ (pc[p] = "mo_st_max_idle" /\ pc'[p] = "mo_len")
                => (max_idle' = arg[p] /\ max_idle' <= max_idle)
          /\ (pc[p] = "mo_ld_max_idle" /\ pc'[p] = "mo_len")
                => (max_idle' = max_idle /\ max_idle <= arg[p])]_vars

(***************************************************************************)
(* C14.  set_max_open(n) removes only idle connections: it returns with    *)
(* idle <= n, it decrements connections by one only after a try_recv that  *)
(* received a connection, and no step of it changes in_use or a guard a    *)
(* caller holds.  (The code violates it: it decrements after a try_recv    *)
(* that received nothing.)                                                 *)
(***************************************************************************)
C14_SetMaxOpenDrain ==
    [][\A p \in Procs :
          /\ (pc[p] = "mo_len" /\ pc'[p] = "idle") => Len(idle) <= arg[p]
          /\ (pc[p] = "mo_sub" /\ pc'[p] = "mo_len")
                => (acc[p] = 1 /\ connections' = connections - 1)
          /\ (pc[p] \in {"mo_ld_max_idle", "mo_st_max_idle", "mo_len",
                          "mo_try_recv", "mo_load", "mo_sub"} /\ pc'[p] # pc[p])
                => (in_use' = in_use /\ held' = held)]_vars

(***************************************************************************)
(* C15.  set_max_idle_conns(n) stores n as max_idle for every n, n = 0 and *)
(* n > max_open included; it returns with idle <= n; and it decrements     *)
(* connections by one only after a try_recv that received a connection.    *)
(* (The code violates it: it decrements after a try_recv that received     *)
(* nothing.)                                                               *)
(***************************************************************************)
C15_SetMaxIdleDrain ==
    [][\A p \in Procs :
          /\ (pc[p] = "idle" /\ pc'[p] = "mi_len") => max_idle' = arg'[p]
          /\ (pc[p] = "mi_len" /\ pc'[p] = "idle") => Len(idle) <= arg[p]
          /\ (pc[p] = "mi_sub" /\ pc'[p] = "mi_len")
                => (acc[p] = 1 /\ connections' = connections - 1)]_vars

(***************************************************************************)
(* C16.  Once a set_max_idle_conns or set_max_open call has returned,      *)
(* idle <= max_idle whenever no acquire is in progress, whatever acquires  *)
(* and releases ran concurrently.  max_idle differs from the value         *)
(* Pool::new gave it only by such a call, which has returned when no       *)
(* thread is inside one.  (The code violates it.)                          *)
(***************************************************************************)
C16_IdleWithinMaxIdle ==
    ( /\ max_idle # DefaultMaxOpen
      /\ \A p \in Procs : pc[p] \in {"idle", "rc_len", "rc_max_idle", "rc_send",
                                      "rc_load", "rc_sub"} )
    => Len(idle) <= max_idle

(***************************************************************************)
(* C17.  A get_timeout whose future is dropped at one of its awaits - by   *)
(* the caller, or by the outer deadline - leaves in_use, connecting,       *)
(* checking and waits as they were before the call.  (A single client:     *)
(* SeqSpec.)                                                               *)
(***************************************************************************)
C17_CancelRestoresCounters ==
    (obs.op = "get_timeout" /\ obs.result \in {"cancelled", "get_timeout"})
    => /\ in_use = obs.pre.in_use
       /\ connecting = obs.pre.connecting
       /\ checking = obs.pre.checking
       /\ waits = obs.pre.waits

\* a call was dropped by its caller during check, another guard being held
C17_Witness ==
    /\ obs.op = "get_timeout"
    /\ obs.result = "cancelled"
    /\ <<"dropped", "check">> \in obs.ev
    /\ in_use > 0

(***************************************************************************)
(* C18.  When the future of a get_timeout is dropped (by the caller or by  *)
(* the outer deadline) after it dequeued a connection and before check     *)
(* completed, the drop of its guard decreases connections by one, and the  *)
(* connection is neither re-queued nor handed out; when it is dropped      *)
(* before a dequeue, none of its remaining steps changes the idle queue.   *)
(* (The code violates it: the guard's drop skips the decrement when it     *)
(* loads connections = 0.)                                                 *)
(***************************************************************************)
Dropped(p) == result[p] \in {"cancelled", "get_timeout"}

C18_CancelDiscards ==
    [][\A p \in Procs :
          /\ (Dropped(p) /\ pc[p] \in {"g_load", "g_sub"}
                /\ pc'[p] \notin {"g_load", "g_sub"})
                => /\ connections' = connections - 1
                   /\ idle' = idle
                   /\ held' = held
          /\ (Dropped(p) /\ pc'[p] # pc[p])
                => /\ idle' = idle
                   /\ held' = held]_vars

(***************************************************************************)
(* C19.  When a task that holds checked guards is aborted or panics, each  *)
(* of its guards is released exactly once: in_use goes down by one for     *)
(* each guard dropped, and is back at 0 when the task is gone; each        *)
(* connection is appended to the idle queue while idle < max_idle and      *)
(* dropped with a decrement of connections otherwise; waits, connecting    *)
(* and checking are untouched.  (A single client: SeqSpec.)                *)
(***************************************************************************)
\* the number of the task's obs.n connections that recycle re-queues
Requeued == LET room == IF obs.max_idle > obs.pre.idle
                        THEN obs.max_idle - obs.pre.idle ELSE 0
            IN  IF obs.n < room THEN obs.n ELSE room

C19_AbortReleasesOnce ==
    obs.op = "abort" =>
        /\ in_use = obs.pre.in_use - (obs.n - HeldTotal)
        /\ waits = obs.pre.waits
        /\ connecting = obs.pre.connecting
        /\ checking = obs.pre.checking
        /\ (\A p \in SeqProcs : pc[p] = "idle") <=> obs.result = "done"
        /\ obs.result = "done" =>
              /\ HeldTotal = 0
              /\ in_use = 0
              /\ Len(idle) = obs.pre.idle + Requeued
              /\ SubSeq(idle, 1, obs.pre.idle) = obs.queue
              /\ connections = obs.pre.connections - (obs.n - Requeued)

\* a task with two guards is gone: one connection was re-queued, the other
\* dropped
C19_Witness ==
    /\ obs.op = "abort"
    /\ obs.result = "done"
    /\ obs.n = 2
    /\ Len(idle) = obs.pre.idle + 1
    /\ connections = obs.pre.connections - 1

(***************************************************************************)
(* C20.  When manager.connect returns an error, get_timeout returns that   *)
(* error without another attempt: from the error to the return its steps   *)
(* change neither connections nor the idle queue nor in_use and call       *)
(* connect no more, and when it returns connecting, waits and in_use are   *)
(* as before the call.  (A single client: SeqSpec.)                        *)
(***************************************************************************)
ConnectFailed == obs.op = "get_timeout" /\ <<"err", "connect">> \in obs.ev

C20_ConnectErrorReturned ==
    [][\A p \in SeqProcs :
          /\ (pc[p] = "connect" /\ result'[p] = "connect_error")
                => (pc'[p] = "dec_connecting" /\ poolVars' = poolVars)
          /\ (result[p] = "connect_error" /\ pc'[p] # pc[p])
                => /\ connections' = connections
                   /\ idle' = idle
                   /\ in_use' = in_use
                   /\ held' = held
                   /\ connects' = connects
                   /\ pc[p] = "dec_connecting"
                         => (connecting' = connecting - 1 /\ pc'[p] = "dec_waits")
                   /\ pc[p] = "dec_waits"
                         => /\ pc'[p] = "idle"
                            /\ obs'.result = "connect_error"
                            /\ waits' = obs.pre.waits
                            /\ connecting' = obs.pre.connecting
                            /\ in_use' = obs.pre.in_use]_vars

\* a call has returned the error of connect, another guard being held and
\* a connection idle
C20_Witness ==
    /\ ConnectFailed
    /\ obs.result = "connect_error"
    /\ in_use > 0
    /\ idle # <<>>

\* C20 as stated: connections, idle and in_use are as before the call
\* whenever the call returns the error of connect.  (Violated: before its
\* connect failed, the call may have dequeued a connection and discarded
\* it after a failed check, or created one.)
C20_ConnectErrorUnchanged ==
    (ConnectFailed /\ obs.result = "connect_error")
    => /\ State = obs.pre
       /\ idle = obs.queue

(***************************************************************************)
(* C21.  When manager.check returns an error for a dequeued connection,    *)
(* get_timeout does not return: the guard is dropped, the connection       *)
(* neither re-queued nor handed out, and the loop starts again; a call     *)
(* during which nothing else went wrong than such errors returns, if it    *)
(* returns, a guard whose connection passed check.  (A single client:      *)
(* SeqSpec.)                                                               *)
(***************************************************************************)
C21_CheckErrorRetries ==
    [][\A p \in SeqProcs :
          /\ (pc[p] = "check" /\ verdict'[p] = "Err")
                => (pc'[p] = "g_load" /\ result'[p] = "none" /\ poolVars' = poolVars)
          /\ (result[p] = "none" /\ pc[p] \in {"g_load", "g_sub"} /\ pc'[p] # pc[p])
                => /\ idle' = idle
                   /\ held' = held
                   /\ pc'[p] \in {"g_sub", "dec_checking"}
                   /\ pc'[p] = "dec_checking" => conn'[p] = 0
          /\ (result[p] = "none" /\ pc[p] = "dec_checking" /\ pc'[p] # pc[p])
                => pc'[p] = "ld_connections"
          /\ (pc[p] = "dec_waits" /\ pc'[p] = "idle" /\ obs.ev = {<<"err", "check">>})
                => /\ obs'.result = "ok"
                   /\ verdict[p] = "Ok"
                   /\ held'[conn[p]] = held[conn[p]] + 1]_vars

\* a call has returned a guard after a check error, with max_open = 1
C21_Witness ==
    /\ obs.op = "get_timeout"
    /\ obs.result = "ok"
    /\ obs.ev = {<<"err", "check">>}
    /\ max_open = 1
    /\ HeldTotal = 1

(***************************************************************************)
(* C22.  When manager.check does not complete within timeout_check,        *)
(* get_timeout returns the error "check_timeout=..." without another       *)
(* attempt: checking is decremented, the guard is dropped - connections    *)
(* decreases by one and the connection is neither re-queued nor handed     *)
(* out - and waits is decremented.  (The code violates it: the guard's     *)
(* drop skips the decrement when it loads connections = 0.)                *)
(***************************************************************************)
C22_CheckTimeoutReturned ==
    [][\A p \in Procs :
          /\ (pc[p] = "check" /\ verdict'[p] = "Elapsed")
                => (pc'[p] = "dec_checking" /\ result'[p] = "check_timeout"
                    /\ poolVars' = poolVars)
          /\ (result[p] = "check_timeout" /\ pc'[p] # pc[p])
                => /\ idle' = idle
                   /\ held' = held
                   /\ connects' = connects
                   /\ pc[p] = "dec_checking"
                         => (checking' = checking - 1 /\ pc'[p] = "g_load")
                   /\ (pc[p] \in {"g_load", "g_sub"} /\ pc'[p] \notin {"g_load", "g_sub"})
                         => (connections' = connections - 1 /\ pc'[p] = "dec_waits")
                   /\ pc[p] = "dec_waits"
                         => (waits' = waits - 1 /\ pc'[p] = "idle")]_vars

(***************************************************************************)
(* C23.  A hung check that is cut off by timeout_check does not starve the *)
(* other callers: under fair scheduling, connect succeeding and every      *)
(* other check returning Ok, a call that waits on the empty idle queue     *)
(* eventually returns a guard (unless its own check is cut off, or the     *)
(* model's budget of connects is used up).  (The code violates it: the     *)
(* connection of the hung check is discarded, and nothing wakes the        *)
(* waiting call or connects for it.)                                       *)
(***************************************************************************)
C23_NoStarvation ==
    \A q \in Procs :
        (pc[q] = "recv" /\ idle = <<>>)
        ~> \/ pc[q] = "dec_waits" /\ result[q] = "ok"
           \/ result[q] = "check_timeout"
           \/ connects = MaxConnects

(***************************************************************************)
(* C24.  On a fresh pool with max_open = max_idle = N, N concurrent calls  *)
(* of get() all return a guard, whatever the interleaving: eventually      *)
(* in_use = N with N guards held; and once the guards are all dropped,     *)
(* in_use = 0 and idle = N for good.                                       *)
(***************************************************************************)
C24_AllAcquireThenIdle ==
    /\ <>(in_use = NumTasks /\ HeldTotal = NumTasks)
    /\ <>[](HeldTotal = 0 /\ in_use = 0 /\ Len(idle) = NumTasks)

\* the operation just finished was the drop of a guard, and the operation
\* before it a get that returned a guard, called with fewer than max_idle
\* connections idle
AcquireThenDrop ==
    /\ obs.op = "drop" /\ obs.result = "done"
    /\ obs.last.op = "get_timeout" /\ obs.last.result = "ok"
    /\ obs.last.idle < obs.max_idle

(***************************************************************************)
(* C25.  From a state between operations with idle < max_idle and          *)
(* in_use + idle < max_open, a get that returns a guard followed at once   *)
(* by the drop of a guard leaves in_use at its value before the get and    *)
(* idle one higher than before the get.                                    *)
(***************************************************************************)
C25_AcquireDropAddsIdle ==
    (AcquireThenDrop /\ obs.last.in_use + obs.last.idle < obs.last.max_open)
        => /\ in_use = obs.last.in_use
           /\ Len(idle) = obs.last.idle + 1

\* a get that found one connection idle and connected another, then the drop
C25_Witness ==
    /\ AcquireThenDrop
    /\ obs.last.in_use + obs.last.idle < obs.last.max_open
    /\ obs.last.idle = 1
    /\ Len(idle) = 2

\* C25 as it is stated, for every state with idle < max_idle: violated when
\* the get is not admitted to connect (connections = max_open) and takes
\* the idle connection, which the drop puts back
C25_AcquireDropAnyState ==
    AcquireThenDrop
        => /\ in_use = obs.last.in_use
           /\ Len(idle) = obs.last.idle + 1

(***************************************************************************)
(* C26.  A get that finds connections + connecting < max_open calls        *)
(* connect, whether or not connections are idle; and on a fresh pool with  *)
(* k <= max_open <= max_idle, when k tasks have each called get() and      *)
(* dropped the guard, in any interleaving, connections = k and idle = k.   *)
(* (k is the number of tasks, max_open = max_idle = k.)                    *)
(***************************************************************************)
C26_EveryCycleConnects ==
    /\ [][\A p \in Procs :
             (pc[p] = "ld_max_open" /\ acc[p] < max_open /\ pc'[p] # pc[p])
                 => pc'[p] = "inc_connecting"]_vars
    /\ [][\A p \in Procs :
             (pc[p] = "inc_connecting" /\ pc'[p] # pc[p])
                 => (pc'[p] = "connect" /\ connects' = connects + 1)]_vars
    /\ []((/\ obs.calls = NumTasks
           /\ \A p \in Procs : pc[p] = "idle"
           /\ HeldTotal = 0)
          => (connections = NumTasks /\ Len(idle) = NumTasks))

(***************************************************************************)
(* C27.  In every reachable state the number of manager.connect() calls    *)
(* made so far is at most max_open plus the number of connections          *)
(* discarded because their check returned an error.                        *)
(***************************************************************************)
C27_ConnectsBounded == connects <= max_open + obs.discards

(***************************************************************************)
(* C28.  With max_open constant, in every state of concurrent acquires and *)
(* releases in_use + idle <= connections, and connections <= max_open +    *)
(* the number of get calls in progress.                                    *)
(***************************************************************************)
C28_ConnectionsBracket ==
    /\ in_use + Len(idle) <= connections
    /\ connections <= max_open + Cardinality({p \in Procs : InGet(p)})

(***************************************************************************)
(* C29.  While the pool's max_lifetime is Some(d), get never hands out a   *)
(* connection older than d: a check that lets the guard be returned is the *)
(* check of a connection whose age does not exceed d.  (The code violates  *)
(* it: get_timeout never reads max_lifetime.)                              *)
(***************************************************************************)
C29_NoExpiredHandedOut ==
    [][\A p \in SeqProcs :
          (max_lifetime = "Some" /\ pc[p] \in {"check", "inner"} /\ result'[p] = "ok")
              => Elapsed(conn[p]) <= LifeD]_vars

(***************************************************************************)
(* C30.  In mode MaxLifetime(d), check of a connection older than d        *)
(* returns the error "connection exceeded max lifetime" without calling    *)
(* the inner manager's check, and the connection is not handed out; check  *)
(* of a connection not older than d calls the inner manager's check and    *)
(* returns what it answers.                                                *)
(***************************************************************************)
C30_MaxLifetimeCheck ==
    [][\A p \in SeqProcs :
          /\ (GetMode = MaxLifetime(LifeD) /\ pc[p] = "check" /\ pc'[p] # "check")
                => IF Elapsed(conn[p]) > LifeD
                   THEN /\ verdict'[p] = "Expired" /\ pc'[p] = "g_load" /\ result'[p] # "ok"
                        /\ obs'.checks = obs.checks
                   ELSE pc'[p] = "inner" /\ obs'.checks = obs.checks + 1
          /\ (pc[p] = "inner" /\ pc'[p] # "inner")
                => /\ verdict'[p] \in {"Ok", "Err"}
                   /\ result'[p] = "ok" <=> verdict'[p] = "Ok"]_vars

(***************************************************************************)
(* C31.  In mode SkipInterval(d), check of a connection whose age since    *)
(* its creation is less than d returns Ok without calling the inner        *)
(* manager's check, and check of a connection whose age is d or more calls *)
(* the inner manager's check, on every call.  (The code violates it for a  *)
(* connection made while the mode was NoLimit: it carries no creation      *)
(* instant, and its check is delegated at any age.)                        *)
(***************************************************************************)
C31_SkipIntervalCheck ==
    [][\A p \in SeqProcs :
          (GetMode = SkipInterval(LifeD) /\ pc[p] = "check" /\ pc'[p] # "check")
              => IF Elapsed(conn[p]) < LifeD
                 THEN verdict'[p] = "Ok" /\ result'[p] = "ok" /\ obs'.checks = obs.checks
                 ELSE pc'[p] = "inner" /\ obs'.checks = obs.checks + 1]_vars

(***************************************************************************)
(* C32.  With a skip interval d, on a fresh pool whose client drops each    *)
(* guard before its next acquisition, the first acquisition calls the      *)
(* inner manager's check, every acquisition made less than d after it      *)
(* leaves the number of inner check calls at 1, and the first acquisition  *)
(* made more than d after it brings the number to 2.  (The one connection  *)
(* there is was created in the first acquisition, so its age is the time   *)
(* since the first acquisition.  The code violates it: DurationManager     *)
(* measures the interval from the creation of the connection and not from  *)
(* the last delegated check, so the burst calls the inner check 0 times.)  *)
(***************************************************************************)
C32_SkippedAfterDelegatedCheck ==
    [][\A p \in SeqProcs :
          (connects = 1 /\ pc[p] = "check" /\ pc'[p] # "check")
              => /\ Elapsed(conn[p]) < LifeD => obs'.checks = 1
                 /\ (Elapsed(conn[p]) > LifeD /\ obs.checks <= 1) => obs'.checks = 2]_vars

(***************************************************************************)
(* C33.  A get() of the cell, no take or store having come after the last  *)
(* new(x) or store(x), returns None when x is None, and when x is Some(d)  *)
(* it returns Some of the smallest whole number of milliseconds that is    *)
(* not less than d, or of the largest number of milliseconds a u64 holds   *)
(* when there is none.  (The code violates it for Some(Duration::ZERO),    *)
(* which reads back as None.)                                              *)
(***************************************************************************)
\* the whole milliseconds of x rounded up, saturating
RoundedUp(x) ==
    LET ms == CHOOSE k \in 0..MsPerSec :
                  /\ k * NanosPerMilli >= x.nanos
                  /\ k = 0 \/ (k - 1) * NanosPerMilli < x.nanos
    IN  IF x.secs > (U64Max - ms) \div MsPerSec
        THEN FromMillis(U64Max)
        ELSE FromMillis(x.secs * MsPerSec + ms)

C33_GetReturnsRoundedUp ==
    [][\A p \in Procs :
          (AtomicGet(p) /\ obs.op \in {"new", "store"})
              => result'[p] = IF obs.last.some THEN RoundedUp(obs.last) ELSE None]_vars

(***************************************************************************)
(* C38.  take returns what a get at that moment would return and leaves    *)
(* None in the cell; of the take calls made since the last new or store,   *)
(* by either thread in any order, at most one has returned Some; and a get *)
(* that follows a take, no store between them, returns None.               *)
(***************************************************************************)
C38_TakeOnce ==
    [][\A p \in Procs :
          /\ Take(p) => /\ result'[p] = Decode(cell)
                        /\ Decode(cell') = None
                        /\ obs'.somes <= 1
          /\ (AtomicGet(p) /\ obs.op = "take") => result'[p] = None]_vars

\* a take on a cell that held Some has returned Some to one thread and left
\* None in the cell, and the other thread holds None
C38_Witness ==
    /\ obs.op = "take"
    /\ obs.somes = 1
    /\ cell = 0
    /\ \E p, q \in Procs : result[p].some /\ result[q] = None /\ arg[p] = None /\ arg[q] = None

(***************************************************************************)
(* C34.  In every reachable state waits is the number of threads inside    *)
(* get_timeout (from the fetch_add of line 85 to the deferred fetch_sub of *)
(* lines 86-88), connecting is the number of threads inside the connect    *)
(* branch (from the fetch_add of line 96 to the deferred fetch_sub of      *)
(* lines 97-99), and checking is the number of threads inside a validation *)
(* attempt (from the fetch_add of line 116 to the deferred fetch_sub of    *)
(* lines 117-119), whichever way the call ends: Ok, a connect or check     *)
(* error, a check timeout, the deadline, or the drop of the future.        *)
(***************************************************************************)
\* thread p is inside get_timeout, its waits.fetch_add done and its deferred
\* waits.fetch_sub not yet
Getting(p) ==
    pc[p] \in {"ld_connections", "ld_connecting", "ld_max_open", "inc_connecting",
               "connect", "send", "inc_connections", "dec_connecting", "recv", "parked",
               "inc_checking", "check", "inner", "dec_checking", "g_load", "g_sub",
               "dec_waits"}

\* p is inside the connect branch, its connecting.fetch_add done and its
\* deferred connecting.fetch_sub not yet
Connecting(p) == pc[p] \in {"connect", "send", "inc_connections", "dec_connecting"}

\* p is inside a validation attempt, its checking.fetch_add done and its
\* deferred checking.fetch_sub not yet (after a check error the guard is
\* dropped before the deferred call runs)
Checking(p) ==
    \/ pc[p] \in {"check", "inner", "dec_checking"}
    \/ pc[p] \in {"g_load", "g_sub"} /\ result[p] = "none"

C34_TransientCounters ==
    /\ waits = Cardinality({p \in Procs : Getting(p)})
    /\ connecting = Cardinality({p \in Procs : Connecting(p)})
    /\ checking = Cardinality({p \in Procs : Checking(p)})

\* two acquirers are blocked on a saturated pool whose only connection is
\* held by a caller: waits = 2
C34_Witness ==
    /\ \A p \in Procs : pc[p] = "parked"
    /\ idle = <<>>
    /\ HeldTotal = 1
    /\ connections + connecting >= max_open
    /\ waits = 2 /\ connecting = 0 /\ checking = 0

(***************************************************************************)
(* C35.  No counter wraps below zero: in every reachable state none of     *)
(* connections, in_use, connecting, checking and waits holds a value that  *)
(* a fetch_sub on 0 leaves.  (The code violates it for connections: the    *)
(* test connections.load() > 0 and the fetch_sub that follows it are two   *)
(* accesses, and two threads that both load 1 both decrement.)             *)
(***************************************************************************)
\* x is 2^64 - 1 or one of the values below it that further decrements leave
Wrapped(x) == x >= U64Max - MaxUnderflow

C35_NoCounterWraps ==
    /\ ~Wrapped(connections)
    /\ ~Wrapped(in_use)
    /\ ~Wrapped(connecting)
    /\ ~Wrapped(checking)
    /\ ~Wrapped(waits)

(***************************************************************************)
(* C36.  Under weak fairness, connect and check always succeeding, no      *)
(* call of get() stays parked at recv_async forever while the idle queue   *)
(* is empty and connections + connecting < max_open.  (The code violates   *)
(* it: a release that drops the connection, the queue holding max_idle     *)
(* connections already, lowers connections and wakes nobody, and the       *)
(* parked call does not look at the counters again.)                       *)
(***************************************************************************)
\* q is parked at recv_async (line 107) although it could connect
ParkedBelowLimit(q) ==
    /\ pc[q] = "recv"
    /\ idle = <<>>
    /\ connections + connecting < max_open

C36_FreedCapacityIsUsed == \A q \in Procs : ~<>[]ParkedBelowLimit(q)

(***************************************************************************)
(* C37.  Every get_mode, one that runs concurrently with set_mode          *)
(* included, returns a check mode that was passed to CheckModeAtomic::new  *)
(* or to one set_mode call: never the variant of one argument with the     *)
(* duration of another.  (The code violates it: set_mode is two stores and *)
(* get_mode two loads.)                                                    *)
(***************************************************************************)
C37_GetModeReturnsOneSetting ==
    [][\A p \in Procs :
          (pc[p] = "gm_duration" /\ pc'[p] = "idle") => result'[p] \in obs.passed]_vars

(***************************************************************************)
(* C39.  cleanup_expired_connections changes nothing while the pool's      *)
(* max_lifetime is None; while it is Some(d), every connection it takes    *)
(* from the idle queue is older than d, every connection it has taken is   *)
(* followed by one decrement of connections, and in_use stays as it is.    *)
(* (The code violates it: it takes up to min(idle, 20) connections from    *)
(* the queue without looking at their age.)                                *)
(***************************************************************************)
\* p is inside cleanup_expired_connections
Cleaning(p) == pc[p] \in {"cl_try_recv", "cl_load", "cl_sub"}

C39_CleanupExpiredOnly ==
    [][\A p \in SeqProcs :
          /\ (CleanupExpired(p) /\ max_lifetime = "None") => UNCHANGED vars
          /\ (pc[p] = "cl_try_recv" /\ idle' # idle)
                => (idle' = Tail(idle) /\ Elapsed(Head(idle)) > LifeD)
          /\ (pc[p] = "cl_load" /\ arg[p] > 0 /\ <<pc[p], arg[p]>>' # <<pc[p], arg[p]>>)
                => pc'[p] = "cl_sub"
          /\ (pc[p] = "cl_sub" /\ pc'[p] # pc[p])
                => (connections' = connections - 1 /\ arg'[p] = arg[p] - 1)
          /\ Cleaning(p) => in_use' = in_use]_vars

=============================================================================
